---- MODULE Spec2Model ----
(***************************************************************************)
(* A model of the cognitive mini-game suite: the persistence helpers       *)
(* (utils/storage.ts), score normalisation (utils/scoring.ts), the         *)
(* navigation shell (App.tsx, GameWrapper.tsx, ResultPage.tsx) and the     *)
(* game components, each as the state machine its handlers, effects and    *)
(* timer callbacks implement.                                              *)
(*                                                                         *)
(* Conventions.  A React state cell and a ref are both fields of the       *)
(* component's record; a handler, an effect chain or a timer callback is   *)
(* one action (the browser runs each to completion, and the effects of a   *)
(* commit run before the next event is handled).  A pending setTimeout is  *)
(* a field holding what its closure captured.  Random draws are            *)
(* nondeterministic choices.                                               *)
(***************************************************************************)
EXTENDS Integers, Sequences, FiniteSets, TLC

(***************************************************************************)
(* types.ts                                                                *)
(***************************************************************************)
GAMES == <<"memory", "schulte", "stroop", "wordSort", "pathMemory",
           "reaction", "digitSpan", "arithmetic", "patternReason">>

GameId == {GAMES[i] : i \in 1..Len(GAMES)}

Difficulty == {"easy", "normal", "hard"}

MAX_SCORES ==
    [memory        |-> [easy |-> 300,  normal |-> 600,  hard |-> 920],
     schulte       |-> [easy |-> 800,  normal |-> 800,  hard |-> 800],
     stroop        |-> [easy |-> 600,  normal |-> 800,  hard |-> 800],
     wordSort      |-> [easy |-> 400,  normal |-> 600,  hard |-> 800],
     pathMemory    |-> [easy |-> 1050, normal |-> 2250, hard |-> 2450],
     reaction      |-> [easy |-> 800,  normal |-> 800,  hard |-> 800],
     digitSpan     |-> [easy |-> 600,  normal |-> 1200, hard |-> 2000],
     arithmetic    |-> [easy |-> 500,  normal |-> 800,  hard |-> 1000],
     patternReason |-> [easy |-> 500,  normal |-> 800,  hard |-> 1000]]

\* JavaScript null in a slot of type number | null.  Scores are never negative
\* (every game reports max(0, ...) or a sum of non-negative terms), so -1 is free.
Null == -1

Min(a, b) == IF a <= b THEN a ELSE b
Max(a, b) == IF a >= b THEN a ELSE b

RECURSIVE Pow2(_)
Pow2(n) == IF n = 0 THEN 1 ELSE 2 * Pow2(n - 1)

(***************************************************************************)
(* IEEE-754 double arithmetic, as far as normalizeScore needs it.          *)
(* A positive double is int.f1 f2 f3 f4 * 2^exp: an integer part and four  *)
(* fraction limbs of 13 bits (52 fraction bits).  A quotient has int = 1;  *)
(* its product with 100 has 100 <= int < 200 and keeps only the fraction   *)
(* bits a 53-bit significand has room for.                                 *)
(***************************************************************************)
Limb == Pow2(13)

RECURSIVE ExpUp(_, _, _)
ExpUp(num, den, e) == IF num < 2 * den THEN e ELSE ExpUp(num, 2 * den, e + 1)

RECURSIVE ExpDown(_, _, _)
ExpDown(num, den, e) == IF num >= den THEN e ELSE ExpDown(2 * num, den, e - 1)

\* The e with den * 2^e <= num < den * 2^(e+1), for num, den > 0.
Exponent(num, den) == IF num >= den THEN ExpUp(num, den, 0) ELSE ExpDown(num, den, 0)

\* x plus n units of its last fraction limb, carries propagated.
AddUlps(x, n) ==
    LET s4 == x.f[4] + n
        s3 == x.f[3] + (s4 \div Limb)
        s2 == x.f[2] + (s3 \div Limb)
        s1 == x.f[1] + (s2 \div Limb)
    IN  [int |-> x.int + (s1 \div Limb),
         f   |-> <<s1 % Limb, s2 % Limb, s3 % Limb, s4 % Limb>>,
         exp |-> x.exp]

\* num / den in double arithmetic: the quotient rounded to nearest, ties to even.
DoubleDivide(num, den) ==
    LET e  == Exponent(num, den)
        n0 == IF e < 0 THEN num * Pow2(-e) ELSE num
        d0 == IF e < 0 THEN den ELSE den * Pow2(e)
        r0 == n0 - d0
        f1 == (r0 * Limb) \div d0
        r1 == (r0 * Limb) % d0
        f2 == (r1 * Limb) \div d0
        r2 == (r1 * Limb) % d0
        f3 == (r2 * Limb) \div d0
        r3 == (r2 * Limb) % d0
        f4 == (r3 * Limb) \div d0
        r4 == (r3 * Limb) % d0
        guard  == 2 * r4 >= d0
        sticky == ((2 * r4) % d0) # 0
        up == guard /\ (sticky \/ (f4 % 2) = 1)
        t  == [int |-> 1, f |-> <<f1, f2, f3, f4>>, exp |-> e]
        u  == IF up THEN AddUlps(t, 1) ELSE t
    IN  IF u.int = 2 THEN [int |-> 1, f |-> <<0, 0, 0, 0>>, exp |-> e + 1] ELSE u

\* x * 100 in double arithmetic, for a quotient x: the product has 7 or 8 integer
\* bits, so its last 6 or 7 fraction bits are rounded away (nearest, ties to even).
DoubleTimesHundred(x) ==
    LET g4 == x.f[4] * 100
        g3 == (x.f[3] * 100) + (g4 \div Limb)
        g2 == (x.f[2] * 100) + (g3 \div Limb)
        g1 == (x.f[1] * 100) + (g2 \div Limb)
        i  == (x.int * 100) + (g1 \div Limb)
        l4 == g4 % Limb
        drop == IF i >= 128 THEN 128 ELSE 64
        low  == l4 % drop
        guard  == low >= (drop \div 2)
        sticky == (low % (drop \div 2)) # 0
        up == guard /\ (sticky \/ ((l4 \div drop) % 2) = 1)
        t  == [int |-> i, f |-> <<g1 % Limb, g2 % Limb, g3 % Limb, l4 - low>>,
               exp |-> x.exp]
    IN  IF up THEN AddUlps(t, drop) ELSE t

\* Math.round of a positive double: the integer part, plus one when the fraction
\* is at least one half.
MathRound(x) ==
    IF x.exp >= 0
    THEN LET unit == Limb \div Pow2(x.exp)
         IN  (x.int * Pow2(x.exp)) + (x.f[1] \div unit)
               + ((x.f[1] \div (unit \div 2)) % 2)
    ELSE LET unit == Pow2(-x.exp)
         IN  (x.int \div unit) + ((x.int \div (unit \div 2)) % 2)

(***************************************************************************)
(* utils/scoring.ts                                                        *)
(***************************************************************************)
\* Math.min(100, Math.round((rawScore / max) * 100)), for rawScore >= 0.
normalizeScore(gameId, difficulty, rawScore) ==
    LET max == MAX_SCORES[gameId][difficulty]
    IN  IF rawScore = 0 THEN 0
        ELSE Min(100, MathRound(DoubleTimesHundred(DoubleDivide(rawScore, max))))

\* getRating with strict comparisons.
getRating_strict(avg) ==
    IF avg > 90 THEN "top"
    ELSE IF avg > 70 THEN "second"
    ELSE IF avg > 50 THEN "third"
    ELSE "baseline"

getRating(avg) ==
    IF avg >= 90 THEN "top"
    ELSE IF avg >= 70 THEN "second"
    ELSE IF avg >= 50 THEN "third"
    ELSE "baseline"

(***************************************************************************)
(* State                                                                   *)
(***************************************************************************)
VARIABLES
    \* localStorage and the clock (utils/storage.ts)
    bestStore,      \* the entry under BEST_SCORES_KEY
    recStore,       \* the entry under RECORDS_KEY
    now,            \* Date.now()
    threw,          \* whether a storage helper has raised an exception
    lastCall,       \* the last storage helper called, with its arguments
    history,        \* every record appended since the log was last empty
    ops,            \* number of helper calls made
    \* one evaluation of normalizeScore (utils/scoring.ts)
    norm,
    \* the navigation shell (App.tsx, GameWrapper.tsx)
    app,            \* App's state cells
    wrapper,        \* GameWrapper's state cells (mounted while app.page = "game")
    results,        \* what the game components have passed to onComplete
    playedAt,       \* per game, the difficulty at which app.scores[g] was played
    \* the game component GameWrapper renders (games/*.tsx)
    game            \* its state cells, refs and pending timers

storageVars == <<bestStore, recStore, now, threw, lastCall, history, ops>>

appVars == <<app, wrapper, results, playedAt, game>>

vars == <<bestStore, recStore, now, threw, lastCall, history, ops, norm,
          app, wrapper, results, playedAt, game>>

(***************************************************************************)
(* utils/storage.ts                                                        *)
(*                                                                         *)
(* A localStorage entry is [kind, map, items]:                             *)
(*   absent   - getItem returns null                                       *)
(*   empty    - the empty string (falsy)                                   *)
(*   garbage  - text JSON.parse rejects                                    *)
(*   null, num - text that parses to null or to a number                   *)
(*   obj      - text that parses to an object; map holds its game keys     *)
(*   arr      - text that parses to an array; items holds its elements     *)
(***************************************************************************)
MaxRecords == 200

NoMap == [g \in {} |-> Null]

Entry(kind) == [kind |-> kind, map |-> NoMap, items |-> <<>>]

ObjEntry(map) == [kind |-> "obj", map |-> map, items |-> <<>>]

ArrEntry(items) == [kind |-> "arr", map |-> NoMap, items |-> items]

\* getItem(key) is truthy and JSON.parse(data) returns
Parses(entry) == entry.kind \in {"null", "num", "obj", "arr"}

defaults == [g \in GameId |-> Null]

\* { ...defaults, ...JSON.parse(data) }: only an object contributes game keys; a
\* missing or empty entry, and a parse error (caught), give the defaults.
loadBestScores(entry) ==
    IF entry.kind = "obj"
    THEN [g \in GameId |-> IF g \in DOMAIN entry.map THEN entry.map[g] ELSE Null]
    ELSE defaults

\* A variant that writes whatever score it is given.
saveBestScore_always(entry, gameId, score) ==
    ObjEntry([loadBestScores(entry) EXCEPT ![gameId] = score])

\* A variant that keeps the first score of a game.
saveBestScore_first(entry, gameId, score) ==
    LET best == loadBestScores(entry)
    IN  IF best[gameId] = Null
        THEN ObjEntry([best EXCEPT ![gameId] = score])
        ELSE entry

\* The entry under BEST_SCORES_KEY after saveBestScore(gameId, score).
saveBestScore(entry, gameId, score) ==
    LET best == loadBestScores(entry)
    IN  IF best[gameId] = Null \/ score > best[gameId]
        THEN ObjEntry([best EXCEPT ![gameId] = score])
        ELSE entry

\* loadRecords returns JSON.parse(data) as it is: isArray tells whether that value
\* is an array (the only shape with push, splice and a numeric length).
loadRecords(entry) ==
    IF Parses(entry)
    THEN [isArray |-> entry.kind = "arr", items |-> entry.items]
    ELSE [isArray |-> TRUE, items |-> <<>>]

TrainingRecord(gameId, difficulty, score, timestamp) ==
    [gameId |-> gameId, difficulty |-> difficulty, score |-> score,
     timestamp |-> timestamp]

\* A variant that drops the newest records instead of the oldest.
Trim_newest(records) ==
    IF Len(records) > MaxRecords THEN SubSeq(records, 1, MaxRecords) ELSE records

\* records.splice(0, records.length - 200) when records.length > 200
Trim(records) ==
    IF Len(records) > MaxRecords
    THEN SubSeq(records, Len(records) - MaxRecords + 1, Len(records))
    ELSE records

\* saveRecord(gameId, difficulty, score) at time ts: the new entry under
\* RECORDS_KEY, or threw when records.push is not a function (TypeError).
saveRecord(entry, gameId, difficulty, score, ts) ==
    LET records == loadRecords(entry)
    IN  IF ~records.isArray
        THEN [threw |-> TRUE, entry |-> entry]
        ELSE [threw |-> FALSE,
              entry |-> ArrEntry(Trim(Append(records.items,
                            TrainingRecord(gameId, difficulty, score, ts))))]

(***************************************************************************)
(* The storage helpers called in any order (specification SpecStorage).    *)
(***************************************************************************)
MaxOps == 3
MaxStoreScore == 2

\* The games and difficulties the calls are made for.
StoreGames == {"memory", "stroop"}
StoreDifficulties == {"hard"}
StoreScores == {50 * k : k \in 0..MaxStoreScore}

\* A log the program wrote earlier: n appends, the first at time 1.
Prefill(n) == [i \in 1..n |-> TrainingRecord("schulte", "normal", 500, i)]

LastN(s, n) == IF Len(s) > n THEN SubSeq(s, Len(s) - n + 1, Len(s)) ELSE s

PriorAppends == {0, 199, 202}

InitialBestEntries ==
    {Entry("absent"), Entry("empty"), Entry("garbage"), Entry("null"),
     ObjEntry([g \in {"memory"} |-> 50])}

InitialRecordEntries ==
    {Entry("absent"), Entry("garbage"), Entry("null"), Entry("obj")}
    \cup {ArrEntry(LastN(Prefill(n), MaxRecords)) : n \in PriorAppends}

NoCall == [op |-> "none", gameId |-> "memory", score |-> 0]

StorageInit ==
    /\ bestStore \in InitialBestEntries
    /\ recStore \in InitialRecordEntries
    /\ \E n \in PriorAppends :
          /\ recStore.kind = "arr" => recStore = ArrEntry(LastN(Prefill(n), MaxRecords))
          /\ recStore.kind # "arr" => n = 0
          /\ history = Prefill(n)
          /\ now = n + 1
    /\ threw = FALSE
    /\ lastCall = NoCall
    /\ ops = 0

NormIdle == norm = [gameId |-> "memory", difficulty |-> "easy", raw |-> 0, result |-> Null]

NoGame == "none"

FreshWrapper == [phase |-> "playing", score |-> 0, bestScore |-> Null]

\* App's state as its useState initialisers compute it from the store.
AppMounted ==
    LET initial == loadBestScores(bestStore)
    IN  [page |-> "menu", currentGame |-> NoGame, difficulty |-> "normal",
         bestScores |-> initial,
         scores |-> [g \in GameId |->
                       IF initial[g] # Null /\ initial[g] > 0 THEN initial[g] ELSE Null],
         recordCount |-> Len(loadRecords(recStore).items)]

\* No game component is mounted.
NoComponent == [mounted |-> FALSE, id |-> NoGame]

AppIdle ==
    /\ game = NoComponent
    /\ app = [page |-> "menu", currentGame |-> NoGame, difficulty |-> "normal",
              bestScores |-> defaults, scores |-> defaults, recordCount |-> 0]
    /\ wrapper = FreshWrapper
    /\ results = <<>>
    /\ playedAt = [g \in GameId |-> "none"]

SaveBestScore(gameId, score) ==
    /\ ops < MaxOps
    /\ bestStore' = saveBestScore(bestStore, gameId, score)
    /\ lastCall' = [op |-> "saveBestScore", gameId |-> gameId, score |-> score]
    /\ ops' = ops + 1
    /\ UNCHANGED <<recStore, now, threw, history, norm, appVars>>

SaveRecord(gameId, difficulty, score) ==
    /\ ops < MaxOps
    /\ LET r == saveRecord(recStore, gameId, difficulty, score, now)
       IN  /\ recStore' = r.entry
           /\ threw' = (threw \/ r.threw)
           /\ history' = IF r.threw THEN history
                         ELSE Append(history, TrainingRecord(gameId, difficulty, score, now))
    /\ now' = now + 1
    /\ lastCall' = [op |-> "saveRecord", gameId |-> gameId, score |-> score]
    /\ ops' = ops + 1
    /\ UNCHANGED <<bestStore, norm, appVars>>

\* clearRecords(): removeItem on both keys.
ClearRecords ==
    /\ ops < MaxOps
    /\ recStore' = Entry("absent")
    /\ bestStore' = Entry("absent")
    /\ history' = <<>>
    /\ lastCall' = [op |-> "clearRecords", gameId |-> "memory", score |-> 0]
    /\ ops' = ops + 1
    /\ UNCHANGED <<now, threw, norm, appVars>>

StorageNext ==
    \/ \E g \in StoreGames, s \in StoreScores : SaveBestScore(g, s)
    \/ \E g \in StoreGames, d \in StoreDifficulties, s \in StoreScores : SaveRecord(g, d, s)
    \/ ClearRecords

StorageStart == StorageInit /\ NormIdle /\ AppIdle

SpecStorage == StorageStart /\ [][StorageNext]_vars

(***************************************************************************)
(* normalizeScore applied to one input (specification SpecNormalize).      *)
(***************************************************************************)
MaxRaw == 2500

StorageIdle ==
    /\ bestStore = Entry("absent")
    /\ recStore = Entry("absent")
    /\ now = 1
    /\ threw = FALSE
    /\ lastCall = NoCall
    /\ history = <<>>
    /\ ops = 0

NormalizeInit ==
    \E g \in GameId, d \in Difficulty, raw \in 0..MaxRaw :
        norm = [gameId |-> g, difficulty |-> d, raw |-> raw, result |-> Null]

Normalize ==
    /\ norm.result = Null
    /\ norm' = [norm EXCEPT !.result = normalizeScore(norm.gameId, norm.difficulty, norm.raw)]
    /\ UNCHANGED <<storageVars, appVars>>

NormalizeStart == NormalizeInit /\ StorageIdle /\ AppIdle

SpecNormalize == NormalizeStart /\ [][Normalize]_vars

(***************************************************************************)
(* The game components.  A component is a record: its state cells, its     *)
(* refs, and timers, the setTimeout/setInterval calls still pending, each  *)
(* with the values its closure captured.  A click handler or timer         *)
(* callback runs together with the render and the effects its state        *)
(* updates cause.  After unmount, state setters do nothing; writes to refs *)
(* and calls of the onComplete prop still happen.                          *)
(***************************************************************************)
Idle == [pending |-> FALSE]

\* React unmounts the component: its state cells are gone, its refs live on in
\* the closures of the timers still pending, and the effect cleanups clear the
\* timers in cleanup.cleared.
Unmounted(g, cleanup) ==
    [f \in {"id", "mounted", "difficulty", "timers"} \cup cleanup.refs |->
        CASE f = "mounted" -> FALSE
          [] f = "timers" -> [t \in DOMAIN g.timers |->
                                IF t \in cleanup.cleared THEN Idle ELSE g.timers[t]]
          [] OTHER -> g[f]]

\* GameWrapper.handleComplete(finalScore): the finished screen with that score.
Finished(finalScore) ==
    [phase |-> "finished", score |-> finalScore,
     bestScore |-> loadBestScores(bestStore)[app.currentGame]]

\* A callback left the component as g and called onComplete with each of calls.
\* handleComplete sets state only while GameWrapper is mounted, and the finished
\* phase unmounts the component.
Deliver(g, calls, cleanup) ==
    /\ results' = results \o [i \in 1..Len(calls) |->
                                [gameId |-> app.currentGame,
                                 difficulty |-> app.difficulty,
                                 score |-> calls[i]]]
    /\ wrapper' = IF calls # <<>> /\ app.page = "game"
                  THEN Finished(calls[Len(calls)]) ELSE wrapper
    /\ game' = IF calls # <<>> /\ g.mounted THEN Unmounted(g, cleanup) ELSE g
    /\ UNCHANGED <<storageVars, norm, app, playedAt>>

(***************************************************************************)
(* games/MemoryMatch.tsx                                                   *)
(***************************************************************************)
MemoryMatch_SETTINGS ==
    [easy   |-> [pairs |-> 3, timeLimit |-> 0],
     normal |-> [pairs |-> 6, timeLimit |-> 0],
     hard   |-> [pairs |-> 8, timeLimit |-> 60]]

\* createCards: one outcome of the shuffle, cards i and i + pairs share an icon.
MemoryMatch_icon(pairs, index) == (index - 1) % pairs

MemoryMatch_mount(difficulty) ==
    LET settings == MemoryMatch_SETTINGS[difficulty]
    IN  [id |-> "memory", mounted |-> TRUE, difficulty |-> difficulty,
         cards |-> [i \in 1..(2 * settings.pairs) |->
                      [flipped |-> FALSE, matched |-> FALSE]],
         flippedIndices |-> <<>>, errors |-> 0, matches |-> 0,
         timeLeft |-> settings.timeLimit, gameStarted |-> FALSE,
         isChecking |-> FALSE, gameOver |-> FALSE,
         timers |-> [interval |-> Idle, check |-> Idle]]

\* The refs, and the timers the unmount cleanup clears (the countdown only).
MemoryMatch_cleanup == [refs |-> {"isChecking", "gameOver"}, cleared |-> {"interval"}]

\* calculateScore without its final Math.max(0, score).
MemoryMatch_calculateScore_unclamped(timeLimit, matchCount, errorCount, timeUsed) ==
    LET base == (matchCount * 100) - (errorCount * 10)
    IN  IF timeLimit > 0
        THEN base + Max(0, (timeLimit - timeUsed) * 2) ELSE base

\* calculateScore without the time bonus.
MemoryMatch_calculateScore_noBonus(timeLimit, matchCount, errorCount, timeUsed) ==
    Max(0, (matchCount * 100) - (errorCount * 10))

MemoryMatch_calculateScore(timeLimit, matchCount, errorCount, timeUsed) ==
    LET base == (matchCount * 100) - (errorCount * 10)
        score == IF timeLimit > 0
                 THEN base + Max(0, (timeLimit - timeUsed) * 2) ELSE base
    IN  Max(0, score)

\* A time-out effect that never calls onComplete.
MemoryMatch_timeUp_silent(g) == [game |-> g, calls |-> <<>>]

\* useEffect "time running out in hard mode"
MemoryMatch_timeUp(g) ==
    LET timeLimit == MemoryMatch_SETTINGS[g.difficulty].timeLimit
    IN  IF timeLimit > 0 /\ g.gameStarted /\ g.timeLeft = 0 /\ ~g.gameOver
        THEN [game |-> [g EXCEPT !.gameOver = TRUE],
              calls |-> <<MemoryMatch_calculateScore(timeLimit, g.matches, g.errors,
                                                     timeLimit)>>]
        ELSE [game |-> g, calls |-> <<>>]

\* useEffect "all pairs matched"; without a time limit calculateScore ignores
\* timeUsed, so the elapsed seconds are not tracked.
MemoryMatch_allMatched(g) ==
    LET settings == MemoryMatch_SETTINGS[g.difficulty]
        timeUsed == IF settings.timeLimit > 0
                    THEN settings.timeLimit - g.timeLeft ELSE 0
    IN  IF g.matches = settings.pairs /\ g.matches > 0 /\ ~g.gameOver
        THEN [game |-> [g EXCEPT !.gameOver = TRUE],
              calls |-> <<MemoryMatch_calculateScore(settings.timeLimit, g.matches,
                                                     g.errors, timeUsed)>>]
        ELSE [game |-> g, calls |-> <<>>]

\* The effects of one render, in source order.
MemoryMatch_effects(g) ==
    LET first == MemoryMatch_timeUp(g)
        second == MemoryMatch_allMatched(first.game)
    IN  [game |-> second.game, calls |-> first.calls \o second.calls]

MaxErrors == 2

\* The cards a player is taken to click: with one card up, its partner, the card
\* itself, and (while fewer than MaxErrors mismatches) the lowest other face-down
\* card; otherwise the lowest face-down card and the lowest matched card.
MemoryMatch_clicks(g) ==
    LET pairs == MemoryMatch_SETTINGS[g.difficulty].pairs
        all == DOMAIN g.cards
        Lowest(S) == IF S = {} THEN {} ELSE {CHOOSE i \in S : \A j \in S : i <= j}
        faceDown == {i \in all : ~g.cards[i].flipped /\ ~g.cards[i].matched}
        matched == {i \in all : g.cards[i].matched}
    IN  IF g.id # "memory" \/ ~g.mounted THEN {}
        ELSE IF Len(g.flippedIndices) = 1
        THEN LET f == g.flippedIndices[1]
                 p == IF f > pairs THEN f - pairs ELSE f + pairs
             IN  {f, p} \cup (IF g.errors < MaxErrors
                              THEN Lowest(faceDown \ {p}) ELSE {})
        ELSE Lowest(faceDown) \cup Lowest(matched)

\* Early returns that look at the clicked card only.
MemoryMatch_ignores_cardOnly(g, index) ==
    \/ g.gameOver
    \/ g.cards[index].flipped
    \/ g.cards[index].matched

\* The four early returns of handleCardClick.
MemoryMatch_ignores(g, index) ==
    \/ g.gameOver
    \/ g.isChecking
    \/ g.cards[index].flipped
    \/ g.cards[index].matched
    \/ Len(g.flippedIndices) >= 2

\* handleCardClick(index), then the effects of the render it causes.
MemoryMatch_handleCardClick(index) ==
    /\ game.id = "memory"
    /\ game.mounted
    /\ LET settings == MemoryMatch_SETTINGS[game.difficulty]
           ignored == MemoryMatch_ignores(game, index)
           newFlipped == Append(game.flippedIndices, index)
           flipped == [game EXCEPT
                         !.gameStarted = TRUE,
                         !.timers.interval =
                             IF ~game.gameStarted /\ settings.timeLimit > 0
                             THEN [pending |-> TRUE] ELSE @,
                         !.cards[index].flipped = TRUE,
                         !.flippedIndices = newFlipped]
           isMatch == MemoryMatch_icon(settings.pairs, newFlipped[1])
                        = MemoryMatch_icon(settings.pairs, newFlipped[2])
           checking == IF Len(newFlipped) = 2
                       THEN [flipped EXCEPT
                               !.isChecking = TRUE,
                               !.errors = IF isMatch THEN @ ELSE @ + 1,
                               !.timers.check =
                                   [pending |-> TRUE, match |-> isMatch,
                                    first |-> newFlipped[1],
                                    second |-> newFlipped[2]]]
                       ELSE flipped
           r == MemoryMatch_effects(checking)
       IN  IF ignored
           THEN UNCHANGED vars
           ELSE Deliver(r.game, r.calls, MemoryMatch_cleanup)

\* The setTimeout callback of handleCardClick (400 ms after a match, 800 ms
\* after a mismatch).  Nothing clears it at unmount.
MemoryMatch_checkTimeout ==
    /\ game.id = "memory"
    /\ game.timers.check.pending
    /\ LET t == game.timers.check
           fired == [game EXCEPT !.timers.check = Idle, !.isChecking = FALSE]
           shown == [fired EXCEPT
                       !.cards[t.first] =
                           IF t.match THEN [@ EXCEPT !.matched = TRUE]
                           ELSE [@ EXCEPT !.flipped = FALSE],
                       !.cards[t.second] =
                           IF t.match THEN [@ EXCEPT !.matched = TRUE]
                           ELSE [@ EXCEPT !.flipped = FALSE],
                       !.matches = IF t.match THEN @ + 1 ELSE @,
                       !.flippedIndices = <<>>]
           r == MemoryMatch_effects(shown)
       IN  IF game.mounted
           THEN Deliver(r.game, r.calls, MemoryMatch_cleanup)
           ELSE Deliver(fired, <<>>, MemoryMatch_cleanup)

\* One tick of the one-second countdown interval (hard mode).
MemoryMatch_tick ==
    /\ game.id = "memory"
    /\ game.timers.interval.pending
    /\ LET ticked == IF game.timeLeft <= 1
                     THEN [game EXCEPT !.timeLeft = 0, !.timers.interval = Idle]
                     ELSE [game EXCEPT !.timeLeft = @ - 1]
           r == MemoryMatch_effects(ticked)
       IN  Deliver(r.game, r.calls, MemoryMatch_cleanup)

(***************************************************************************)
(* games/WordSort.tsx                                                      *)
(***************************************************************************)
WordSort_SETTINGS ==
    [easy   |-> [categoryCount |-> 2, wordsPerCategory |-> 6, timeLimit |-> Null],
     normal |-> [categoryCount |-> 3, wordsPerCategory |-> 6, timeLimit |-> 90],
     hard   |-> [categoryCount |-> 4, wordsPerCategory |-> 6, timeLimit |-> 60]]

WordSort_totalCount(difficulty) ==
    WordSort_SETTINGS[difficulty].categoryCount
        * WordSort_SETTINGS[difficulty].wordsPerCategory

\* initGame: one outcome of the shuffles, the categories taking turns.  The
\* category of the word at currentIndex (0-based).
WordSort_category(difficulty, currentIndex) ==
    currentIndex % WordSort_SETTINGS[difficulty].categoryCount

WordSort_mount(difficulty) ==
    [id |-> "wordSort", mounted |-> TRUE, difficulty |-> difficulty,
     currentIndex |-> 0, score |-> 0, streak |-> 0, correctCount |-> 0,
     timeLeft |-> WordSort_SETTINGS[difficulty].timeLimit, gameOver |-> FALSE,
     isProcessing |-> FALSE, gameOverRef |-> FALSE, completedRef |-> FALSE,
     timers |-> [interval |-> IF WordSort_SETTINGS[difficulty].timeLimit = Null
                              THEN Idle ELSE [pending |-> TRUE],
                 feedback |-> Idle]]

\* Only the countdown effect has a cleanup; the feedback timeouts are not kept.
WordSort_cleanup ==
    [refs |-> {"isProcessing", "gameOverRef", "completedRef"}, cleared |-> {"interval"}]

\* The completion effect passing the running score as it is.
WordSort_complete_unclamped(g) ==
    IF g.gameOver /\ ~g.completedRef
    THEN [game |-> [g EXCEPT !.completedRef = TRUE], calls |-> <<g.score>>]
    ELSE [game |-> g, calls |-> <<>>]

\* useEffect "call onComplete when game is over"
WordSort_complete(g) ==
    IF g.gameOver /\ ~g.completedRef
    THEN [game |-> [g EXCEPT !.completedRef = TRUE], calls |-> <<Max(0, g.score)>>]
    ELSE [game |-> g, calls |-> <<>>]

\* The countdown effect and the time-out effect, run when timeLeft has changed,
\* then the completion effect of the render their setGameOver causes.
WordSort_effects(g, timeChanged) ==
    LET timed ==
            IF ~timeChanged \/ g.timeLeft = Null THEN g
            ELSE IF g.gameOverRef THEN [g EXCEPT !.timers.interval = Idle]
            ELSE IF g.timeLeft <= 0
                 THEN [g EXCEPT !.gameOverRef = TRUE, !.gameOver = TRUE,
                                !.timers.interval = Idle]
            ELSE g
    IN  WordSort_complete(timed)

\* Wrong answers are taken in the first MaxWrong rounds of a session only.
MaxWrong == 2

\* The categories a player is taken to pick: the word's own, and (for the first
\* MaxWrong words) the next one.
WordSort_choices(g) ==
    IF g.id # "wordSort" \/ ~g.mounted THEN {}
    ELSE LET own == WordSort_category(g.difficulty, g.currentIndex)
             count == WordSort_SETTINGS[g.difficulty].categoryCount
         IN  {own} \cup (IF g.currentIndex < MaxWrong
                         THEN {(own + 1) % count} ELSE {})

WordSort_handleCategoryClick(selectedCategory) ==
    /\ game.id = "wordSort"
    /\ game.mounted
    /\ LET ignored == \/ game.isProcessing
                      \/ game.gameOverRef
                      \/ game.gameOver
                      \/ game.currentIndex >= WordSort_totalCount(game.difficulty)
           isCorrect == selectedCategory
                           = WordSort_category(game.difficulty, game.currentIndex)
           newStreak == game.streak + 1
           points == IF newStreak >= 3 /\ newStreak % 3 = 0 THEN 25 ELSE 10
           \* advanceToNext as the timeout's closure holds it
           timeout == [pending |-> TRUE, nextIndex |-> game.currentIndex + 1]
           answered ==
               IF isCorrect
               THEN [game EXCEPT !.isProcessing = TRUE,
                                 !.score = @ + points,
                                 !.streak = newStreak,
                                 !.correctCount = @ + 1,
                                 !.timers.feedback = timeout]
               ELSE [game EXCEPT !.isProcessing = TRUE,
                                 !.score = @ - 5,
                                 !.streak = 0,
                                 !.timers.feedback = timeout]
           r == WordSort_effects(answered, FALSE)
       IN  IF ignored
           THEN UNCHANGED vars
           ELSE Deliver(r.game, r.calls, WordSort_cleanup)

\* The setTimeout callback of handleCategoryClick (400 or 600 ms): advanceToNext.
\* Nothing clears it at unmount.
WordSort_feedbackTimeout ==
    /\ game.id = "wordSort"
    /\ game.timers.feedback.pending
    /\ LET t == game.timers.feedback
           last == t.nextIndex >= WordSort_totalCount(game.difficulty)
           fired == [game EXCEPT !.timers.feedback = Idle,
                                 !.isProcessing = FALSE,
                                 !.gameOverRef = IF last THEN TRUE ELSE @]
           advanced == IF last THEN [fired EXCEPT !.gameOver = TRUE]
                       ELSE [fired EXCEPT !.currentIndex = t.nextIndex]
           r == WordSort_effects(advanced, FALSE)
       IN  IF game.mounted
           THEN Deliver(r.game, r.calls, WordSort_cleanup)
           ELSE Deliver(fired, <<>>, WordSort_cleanup)

\* One tick of the one-second countdown (normal and hard).
WordSort_tick ==
    /\ game.id = "wordSort"
    /\ game.timers.interval.pending
    /\ LET ticked == [game EXCEPT !.timeLeft = IF @ <= 1 THEN 0 ELSE @ - 1]
           r == WordSort_effects(ticked, TRUE)
       IN  Deliver(r.game, r.calls, WordSort_cleanup)

(***************************************************************************)
(* games/StroopTest.tsx                                                    *)
(***************************************************************************)
StroopTest_SETTINGS ==
    [easy   |-> [totalRounds |-> 15, colorCount |-> 3],
     normal |-> [totalRounds |-> 20, colorCount |-> 4],
     hard   |-> [totalRounds |-> 25, colorCount |-> 4]]

\* generateTrial: one outcome of the random draws, the ink colours taking
\* turns.  The index in COLORS of the trial's correctAnswer.
StroopTest_generateTrial(difficulty, round) ==
    round % StroopTest_SETTINGS[difficulty].colorCount

\* The state after the mount effect has run loadTrial().
StroopTest_mount(difficulty) ==
    [id |-> "stroop", mounted |-> TRUE, difficulty |-> difficulty,
     round |-> 1, score |-> 0, streak |-> 0,
     correctAnswer |-> StroopTest_generateTrial(difficulty, 1),
     feedback |-> "none",
     isProcessing |-> FALSE, scoreRef |-> 0, roundRef |-> 1,
     timers |-> [feedback |-> Idle]]

\* The unmount cleanup clears feedbackTimerRef.current.
StroopTest_cleanup ==
    [refs |-> {"isProcessing", "scoreRef", "roundRef"}, cleared |-> {"feedback"}]

\* Answer times in ms: within, at the end of and beyond the 2000 ms bonus
\* window.
AnswerTimes == {1000, 2000, 3000}

StroopTest_choices(g) ==
    IF g.id # "stroop" \/ ~g.mounted THEN {}
    ELSE {g.correctAnswer}
         \cup (IF g.roundRef <= MaxWrong
               THEN {(g.correctAnswer + 1) % StroopTest_SETTINGS[g.difficulty].colorCount}
               ELSE {})

\* handleOptionClick without the isProcessing guard.
StroopTest_ignores_never(g) == FALSE

\* handleOptionClick's early return
StroopTest_ignores(g) == g.isProcessing

\* A penalty taken without the floor at 0.
StroopTest_wrongScore_unclamped(prev) == prev - 5

\* const newScore = Math.max(0, prev - 5)
StroopTest_wrongScore(prev) == Max(0, prev - 5)

\* handleOptionClick(colorName), answerTime ms after the trial was loaded.
StroopTest_handleOptionClick(colorName, answerTime) ==
    /\ game.id = "stroop"
    /\ game.mounted
    /\ LET isCorrect == colorName = game.correctAnswer
           newStreak == game.streak + 1
           points == 10 + (IF answerTime <= 2000 THEN 5 ELSE 0)
                        + (IF newStreak = 10 THEN 50
                           ELSE IF newStreak = 5 THEN 20 ELSE 0)
           newScore == IF isCorrect THEN game.score + points
                       ELSE StroopTest_wrongScore(game.score)
           nextRound == game.roundRef + 1
           final == nextRound > StroopTest_SETTINGS[game.difficulty].totalRounds
           scored == [game EXCEPT
                        !.isProcessing = TRUE,
                        !.streak = IF isCorrect THEN newStreak ELSE 0,
                        !.score = newScore,
                        !.scoreRef = newScore,
                        !.feedback = IF isCorrect THEN "correct" ELSE "wrong",
                        !.timers.feedback = [pending |-> TRUE, final |-> final]]
           advanced == IF final THEN scored
                       ELSE [scored EXCEPT !.round = nextRound, !.roundRef = nextRound]
       IN  IF StroopTest_ignores(game)
           THEN UNCHANGED vars
           ELSE Deliver(advanced, <<>>, StroopTest_cleanup)

\* The 400 ms timeout of handleOptionClick: onComplete(scoreRef.current) after
\* the last round, loadTrial() otherwise.
StroopTest_feedbackTimeout ==
    /\ game.id = "stroop"
    /\ game.timers.feedback.pending
    /\ LET fired == [game EXCEPT !.timers.feedback = Idle]
           loaded == [fired EXCEPT
                        !.correctAnswer =
                            StroopTest_generateTrial(game.difficulty, game.roundRef),
                        !.feedback = "none",
                        !.isProcessing = FALSE]
       IN  IF game.timers.feedback.final
           THEN Deliver(fired, <<game.scoreRef>>, StroopTest_cleanup)
           ELSE Deliver(loaded, <<>>, StroopTest_cleanup)

(***************************************************************************)
(* games/PatternReason.tsx                                                 *)
(***************************************************************************)
PatternReason_SETTINGS ==
    [easy   |-> [questionCount |-> 10, pointsPerCorrect |-> 50],
     normal |-> [questionCount |-> 12, pointsPerCorrect |-> 67],
     hard   |-> [questionCount |-> 15, pointsPerCorrect |-> 67]]

SPEED_BONUS == 10
SPEED_THRESHOLD_MS == 8000

\* The correctIndex of the entries of EASY_QUESTIONS, NORMAL_QUESTIONS and
\* HARD_QUESTIONS, in that order; every question has four options.  A question
\* is denoted by its place in this list.
PatternReason_bank ==
    <<0, 2, 1, 1, 2, 3, 1, 1, 1, 0, 1, 0>>
        \o <<0, 1, 0, 0, 0, 0, 0, 0, 0, 0, 2, 2, 0, 0>>
        \o <<0, 0, 0, 0, 0, 0, 0, 0, 3, 0, 0, 0, 0, 0, 0, 0, 0>>

\* ALL_QUESTIONS[difficulty]: the first 12, 26 or 43 questions of the bank.
ALL_QUESTIONS(difficulty) ==
    LET size == CASE difficulty = "easy" -> 12
                  [] difficulty = "normal" -> 26
                  [] difficulty = "hard" -> 43
    IN  [i \in 1..size |-> i]

\* Math.random() takes the values 0, 1/4, 1/2 and 3/4 in turn, starting at
\* seed/4: the quarters of the n-th value of the stream.
PatternSeeds == 0..3

PatternReason_random(seed, n) == (seed + n) % 4

\* shuffle(array), the loop from i (0-based) down to 1:
\* j = Math.floor(Math.random() * (i + 1)); swap arr[i] and arr[j].
RECURSIVE PatternReason_shuffle(_, _, _)
PatternReason_shuffle(arr, i, seed) ==
    IF i < 1 THEN arr
    ELSE LET j == (PatternReason_random(seed, i) * (i + 1)) \div 4
             swapped == [arr EXCEPT ![i + 1] = arr[j + 1], ![j + 1] = arr[i + 1]]
         IN  PatternReason_shuffle(swapped, i - 1, seed)

\* A selection that draws every question afresh from the pool.
PatternReason_selectQuestions_redrawn(difficulty, seed) ==
    LET pool == ALL_QUESTIONS(difficulty)
    IN  [k \in 1..PatternReason_SETTINGS[difficulty].questionCount |->
            pool[((PatternReason_random(seed, k) * Len(pool)) \div 4) + 1]]

\* selectQuestions(difficulty): shuffle(pool).slice(0, settings.questionCount)
PatternReason_selectQuestions(difficulty, seed) ==
    LET pool == ALL_QUESTIONS(difficulty)
        shuffled == PatternReason_shuffle(pool, Len(pool) - 1, seed)
    IN  SubSeq(shuffled, 1,
               Min(Len(shuffled), PatternReason_SETTINGS[difficulty].questionCount))

\* questions[currentQuestion].correctIndex
PatternReason_correctIndex(g) ==
    PatternReason_bank[g.questions[g.currentQuestion + 1]]

PatternReason_mount(difficulty, seed) ==
    [id |-> "patternReason", mounted |-> TRUE, difficulty |-> difficulty,
     questions |-> PatternReason_selectQuestions(difficulty, seed),
     currentQuestion |-> 0, score |-> 0, feedback |-> "none",
     selectedOption |-> Null,
     isProcessing |-> FALSE, scoreRef |-> 0,
     timers |-> [feedback |-> Idle]]

PatternReason_cleanup ==
    [refs |-> {"isProcessing", "scoreRef"}, cleared |-> {"feedback"}]

\* Answer times in ms: within, at and beyond SPEED_THRESHOLD_MS.
PatternTimes == {5000, 8000, 9000}

PatternReason_choices(g) ==
    IF g.id # "patternReason" \/ ~g.mounted THEN {}
    ELSE LET correct == PatternReason_correctIndex(g)
         IN  {correct} \cup (IF g.currentQuestion < MaxWrong
                             THEN {(correct + 1) % 4} ELSE {})

\* handleOptionClick(optionIndex), answerTime ms after the question appeared.
PatternReason_handleOptionClick(optionIndex, answerTime) ==
    /\ game.id = "patternReason"
    /\ game.mounted
    /\ LET settings == PatternReason_SETTINGS[game.difficulty]
           ignored == game.isProcessing \/ game.feedback # "none"
           isCorrect == optionIndex = PatternReason_correctIndex(game)
           points == settings.pointsPerCorrect
                        + (IF answerTime <= SPEED_THRESHOLD_MS THEN SPEED_BONUS ELSE 0)
           newScore == IF isCorrect THEN game.score + points ELSE game.score
           answered == [game EXCEPT
                          !.isProcessing = TRUE,
                          !.selectedOption = optionIndex,
                          !.score = newScore,
                          !.scoreRef = newScore,
                          !.feedback = IF isCorrect THEN "correct" ELSE "wrong",
                          !.timers.feedback =
                              [pending |-> TRUE,
                               nextQuestion |-> game.currentQuestion + 1]]
       IN  IF ignored
           THEN UNCHANGED vars
           ELSE Deliver(answered, <<>>, PatternReason_cleanup)

\* The 800 ms timeout of handleOptionClick.
PatternReason_feedbackTimeout ==
    /\ game.id = "patternReason"
    /\ game.timers.feedback.pending
    /\ LET t == game.timers.feedback
           fired == [game EXCEPT !.timers.feedback = Idle]
           advanced == [fired EXCEPT !.currentQuestion = t.nextQuestion,
                                     !.feedback = "none",
                                     !.selectedOption = Null,
                                     !.isProcessing = FALSE]
       IN  IF t.nextQuestion >= Len(game.questions)
           THEN Deliver(fired, <<game.scoreRef>>, PatternReason_cleanup)
           ELSE Deliver(advanced, <<>>, PatternReason_cleanup)

(***************************************************************************)
(* games/ArithmeticChallenge.tsx                                           *)
(***************************************************************************)
ArithmeticChallenge_SETTINGS ==
    [easy   |-> [timeLimit |-> 60, pointsPerCorrect |-> 10, comboBonus |-> 2,
                 maxComboExtra |-> 10],
     normal |-> [timeLimit |-> 60, pointsPerCorrect |-> 15, comboBonus |-> 3,
                 maxComboExtra |-> 15],
     hard   |-> [timeLimit |-> 90, pointsPerCorrect |-> 20, comboBonus |-> 5,
                 maxComboExtra |-> 25]]

\* Math.floor(Math.random() * n) for a draw of Math.random() of quarter / 4.
Quarters == 0..3
ArithmeticChallenge_floorRandom(quarter, n) == (quarter * n) \div 4

\* offsets.sort(() => Math.random() - 0.5): the comparator is not consistent, so
\* the result is some permutation of the offsets; four of them are modelled.
ArithmeticChallenge_shuffled(order) ==
    CASE order = 0 -> <<-3, -2, -1, 1, 2, 3, 5, -5, 10, -10>>
      [] order = 1 -> <<-10, 10, -5, 5, 3, 2, 1, -1, -2, -3>>
      [] order = 2 -> <<-10, -5, -3, -2, -1, 1, 2, 3, 5, 10>>
      [] OTHER     -> <<1, -1, 10, -3, 2, -10, 5, -2, 3, -5>>

SeqHas(seq, val) == \E i \in 1..Len(seq) : seq[i] = val

\* The test of the offset loop with the sign of the value left out.
ArithmeticChallenge_accepts_signed(val, answer, distractors) ==
    val # answer /\ ~SeqHas(distractors, val)

\* val >= 0 && val !== answer && !distractors.has(val)
ArithmeticChallenge_accepts(val, answer, distractors) ==
    val >= 0 /\ val # answer /\ ~SeqHas(distractors, val)

\* for (const offset of shuffled): the Set keeps insertion order.
RECURSIVE ArithmeticChallenge_offsetLoop(_, _, _, _)
ArithmeticChallenge_offsetLoop(distractors, i, answer, shuffled) ==
    IF i > Len(shuffled) \/ Len(distractors) >= 3 THEN distractors
    ELSE LET val == answer + shuffled[i]
         IN  ArithmeticChallenge_offsetLoop(
                 IF ArithmeticChallenge_accepts(val, answer, distractors)
                 THEN Append(distractors, val) ELSE distractors,
                 i + 1, answer, shuffled)

\* while (distractors.size < 3): fallback runs 1, -1, 2, -2, ... and the value
\* is not tested for its sign.
RECURSIVE ArithmeticChallenge_fallbackLoop(_, _, _)
ArithmeticChallenge_fallbackLoop(distractors, fallback, answer) ==
    IF Len(distractors) >= 3 THEN distractors
    ELSE LET val == answer + fallback
         IN  ArithmeticChallenge_fallbackLoop(
                 IF val # answer /\ ~SeqHas(distractors, val)
                 THEN Append(distractors, val) ELSE distractors,
                 IF fallback > 0 THEN -fallback ELSE -fallback + 1, answer)

ArithmeticChallenge_generateDistractors(answer, order) ==
    ArithmeticChallenge_fallbackLoop(
        ArithmeticChallenge_offsetLoop(<<>>, 1, answer,
                                       ArithmeticChallenge_shuffled(order)),
        1, answer)

\* shuffleArray: Fisher-Yates from the last index (0-based i) down to 1, the
\* draws taken from the stream (seed + i) % 4 quarters.
RECURSIVE ArithmeticChallenge_shuffleArray(_, _, _)
ArithmeticChallenge_shuffleArray(a, i, seed) ==
    IF i <= 0 THEN a
    ELSE LET j == ArithmeticChallenge_floorRandom((seed + i) % 4, i + 1)
             swapped == [a EXCEPT ![i + 1] = a[j + 1], ![j + 1] = a[i + 1]]
         IN  ArithmeticChallenge_shuffleArray(swapped, i - 1, seed)

\* generateProblem(difficulty, problemIndex); draws holds the values of
\* Math.random() the call consumes: op, x, y (quarters) for the operator and
\* the two operands, order for the sort of the offsets, seed for shuffleArray.
\* text is the record [op, left, right] of the string "left op right = ?".
ArithmeticChallenge_generateProblem(difficulty, problemIndex, draws) ==
    LET tierStep == IF difficulty = "easy" THEN 8 ELSE 5
        tier == Min(problemIndex \div tierStep, 4)
        x(n) == ArithmeticChallenge_floorRandom(draws.x, n)
        y(n) == ArithmeticChallenge_floorRandom(draws.y, n)
        add(maxNum, base) ==
            LET a == x(maxNum) + base
                b == y(maxNum) + base
            IN  [text |-> [op |-> "add", left |-> a, right |-> b], answer |-> a + b]
        sub(maxNum, base) ==
            LET b == x(maxNum) + base
                a == b + y(maxNum) + 1
            IN  [text |-> [op |-> "sub", left |-> a, right |-> b], answer |-> a - b]
        mul(maxMul) ==
            LET a == x(maxMul) + 2
                b == y(maxMul) + 2
            IN  [text |-> [op |-> "mul", left |-> a, right |-> b], answer |-> a * b]
        div(maxDiv) ==
            LET divisor == x(maxDiv) + 2
                quotient == y(maxDiv) + 2
                dividend == divisor * quotient
            IN  [text |-> [op |-> "div", left |-> dividend, right |-> divisor],
                 answer |-> quotient]
        problem ==
            IF difficulty = "easy"
            THEN LET maxNum == Min(10 + tier * 2, 20)
                 IN  IF draws.op < 2 THEN add(maxNum, 1) ELSE sub(maxNum, 1)
            ELSE IF difficulty = "normal"
            THEN LET op == ArithmeticChallenge_floorRandom(draws.op, 3)
                     maxNum == Min(20 + tier * 8, 50)
                 IN  IF op = 0 THEN add(maxNum, 1)
                     ELSE IF op = 1 THEN sub(maxNum, 1)
                     ELSE mul(Min(6 + tier * 2, 12))
            ELSE LET op == ArithmeticChallenge_floorRandom(draws.op, 4)
                     maxNum == Min(30 + tier * 15, 99)
                 IN  IF op = 0 THEN add(maxNum, 10)
                     ELSE IF op = 1 THEN sub(maxNum, 10)
                     ELSE IF op = 2 THEN mul(Min(8 + tier * 2, 15))
                     ELSE div(Min(8 + tier * 2, 15))
        distractors == ArithmeticChallenge_generateDistractors(problem.answer, draws.order)
        options == ArithmeticChallenge_shuffleArray(<<problem.answer>> \o distractors,
                                                    3, draws.seed)
    IN  [text |-> problem.text, answer |-> problem.answer, options |-> options]

\* The draws of the problems of a session: one outcome per problem index.
ArithmeticChallenge_draws(problemIndex) ==
    [op |-> problemIndex % 4, x |-> (problemIndex + 1) % 4, y |-> problemIndex % 4,
     order |-> problemIndex % 4, seed |-> problemIndex % 4]

\* The state after the mount effects: the countdown interval is running.
ArithmeticChallenge_mount(difficulty) ==
    [id |-> "arithmetic", mounted |-> TRUE, difficulty |-> difficulty,
     timeLeft |-> ArithmeticChallenge_SETTINGS[difficulty].timeLimit,
     currentProblem |-> ArithmeticChallenge_generateProblem(
                            difficulty, 0, ArithmeticChallenge_draws(0)),
     score |-> 0, streak |-> 0, totalCorrect |-> 0, totalAttempted |-> 0,
     feedback |-> "none",
     gameActiveRef |-> TRUE, scoreRef |-> 0, problemIndexRef |-> 0,
     isProcessingRef |-> FALSE,
     timers |-> [interval |-> [pending |-> TRUE], feedback |-> Idle]]

\* Both timers are kept in refs and cleared by the unmount cleanups.
ArithmeticChallenge_cleanup ==
    [refs |-> {"gameActiveRef", "scoreRef", "problemIndexRef", "isProcessingRef"},
     cleared |-> {"interval", "feedback"}]

\* At most MaxAnswers answers are given in a session.
MaxAnswers == 7

ArithmeticChallenge_choices(g) ==
    IF g.id # "arithmetic" \/ ~g.mounted \/ g.totalAttempted >= MaxAnswers THEN {}
    ELSE {g.currentProblem.answer}
         \cup (IF g.totalAttempted < MaxWrong
               THEN {g.currentProblem.options[
                         IF g.currentProblem.options[1] # g.currentProblem.answer
                         THEN 1 ELSE 2]}
               ELSE {})

\* A combo bonus that keeps growing with the streak.
ArithmeticChallenge_comboExtra_uncapped(settings, newStreak) ==
    (newStreak - 1) * settings.comboBonus

\* Math.min((newStreak - 1) * settings.comboBonus, settings.maxComboExtra)
ArithmeticChallenge_comboExtra(settings, newStreak) ==
    Min((newStreak - 1) * settings.comboBonus, settings.maxComboExtra)

ArithmeticChallenge_handleOptionClick(value) ==
    /\ game.id = "arithmetic"
    /\ game.mounted
    /\ LET settings == ArithmeticChallenge_SETTINGS[game.difficulty]
           ignored == game.isProcessingRef \/ ~game.gameActiveRef
           isCorrect == value = game.currentProblem.answer
           newStreak == game.streak + 1
           comboExtra == ArithmeticChallenge_comboExtra(settings, newStreak)
           points == settings.pointsPerCorrect + comboExtra
           answered ==
               IF isCorrect
               THEN [game EXCEPT !.isProcessingRef = TRUE,
                                 !.totalAttempted = @ + 1,
                                 !.streak = newStreak,
                                 !.totalCorrect = @ + 1,
                                 !.score = @ + points,
                                 !.scoreRef = game.score + points,
                                 !.feedback = "correct",
                                 !.timers.feedback = [pending |-> TRUE]]
               ELSE [game EXCEPT !.isProcessingRef = TRUE,
                                 !.totalAttempted = @ + 1,
                                 !.streak = 0,
                                 !.feedback = "wrong",
                                 !.timers.feedback = [pending |-> TRUE]]
       IN  IF ignored
           THEN UNCHANGED vars
           ELSE Deliver(answered, <<>>, ArithmeticChallenge_cleanup)

\* The feedback timeout (400 or 800 ms): nextProblem() if the game is active.
ArithmeticChallenge_feedbackTimeout ==
    /\ game.id = "arithmetic"
    /\ game.timers.feedback.pending
    /\ LET fired == [game EXCEPT !.timers.feedback = Idle]
           next == [fired EXCEPT
                      !.problemIndexRef = @ + 1,
                      !.currentProblem =
                          ArithmeticChallenge_generateProblem(
                             game.difficulty, game.problemIndexRef + 1,
                             ArithmeticChallenge_draws(game.problemIndexRef + 1)),
                      !.feedback = "none",
                      !.isProcessingRef = FALSE]
       IN  Deliver(IF game.gameActiveRef THEN next ELSE fired, <<>>,
                   ArithmeticChallenge_cleanup)

\* An end effect that never calls onComplete.
ArithmeticChallenge_end_silent(g) == [game |-> g, calls |-> <<>>]

\* useEffect "handle game end when timeLeft reaches 0", run when timeLeft changed
ArithmeticChallenge_end(g) ==
    IF g.timeLeft = 0 /\ ~g.gameActiveRef
    THEN [game |-> [g EXCEPT !.timers.feedback = Idle], calls |-> <<g.scoreRef>>]
    ELSE [game |-> g, calls |-> <<>>]

\* A last tick that leaves gameActiveRef set.
ArithmeticChallenge_expire_stillActive(g) ==
    [g EXCEPT !.timeLeft = 0, !.timers.interval = Idle]

\* if (prev <= 1): clearInterval, gameActiveRef.current = false, return 0
ArithmeticChallenge_expire(g) ==
    [g EXCEPT !.timeLeft = 0, !.gameActiveRef = FALSE, !.timers.interval = Idle]

\* One tick of the one-second countdown interval.
ArithmeticChallenge_tick ==
    /\ game.id = "arithmetic"
    /\ game.timers.interval.pending
    /\ LET ticked == IF game.timeLeft <= 1
                     THEN ArithmeticChallenge_expire(game)
                     ELSE [game EXCEPT !.timeLeft = @ - 1]
           r == ArithmeticChallenge_end(ticked)
       IN  Deliver(r.game, r.calls, ArithmeticChallenge_cleanup)

(***************************************************************************)
(* games/DigitSpan.tsx                                                     *)
(***************************************************************************)
DigitSpan_SETTINGS ==
    [easy   |-> [startLength |-> 3, maxLength |-> 6],
     normal |-> [startLength |-> 3, maxLength |-> 8],
     hard   |-> [startLength |-> 4, maxLength |-> 10]]

\* generateSequence(length): one outcome of the random draws, 1, 2, 3, ...
DigitSpan_generateSequence(length) == [i \in 1..length |-> i % 10]

Reverse(s) == [i \in 1..Len(s) |-> s[Len(s) + 1 - i]]

\* The state after the mount effects: the 1000 ms start delay is pending.
\* confirmations is a history value, not a cell of the component: the number of
\* confirmations handleConfirm has handled in the session.
DigitSpan_mount(difficulty) ==
    LET settings == DigitSpan_SETTINGS[difficulty]
    IN  [id |-> "digitSpan", mounted |-> TRUE, difficulty |-> difficulty,
         phase |-> "showing",
         currentSequence |-> DigitSpan_generateSequence(settings.startLength),
         playerInput |-> <<>>, sequenceLength |-> settings.startLength,
         score |-> 0, showingIndex |-> -1, failCount |-> 0,
         longestCorrect |-> 0, firstTryAtLength |-> TRUE,
         gameOverRef |-> FALSE, confirmations |-> 0,
         timers |-> [startDelay |-> [pending |-> TRUE], digit |-> Idle,
                     allShown |-> Idle, confirm |-> Idle]]

\* The effect cleanups clear the three display timers; the timeouts set by
\* handleConfirm are not kept anywhere.
DigitSpan_cleanup ==
    [refs |-> {"gameOverRef"}, cleared |-> {"startDelay", "digit", "allShown"}]

\* The display effects after a render: in the showing phase, the start delay
\* while showingIndex < 0, then one timer per digit, then the 400 ms timer that
\* opens the input phase.
DigitSpan_effects(g) ==
    LET none == [startDelay |-> Idle, digit |-> Idle, allShown |-> Idle,
                 confirm |-> g.timers.confirm]
    IN  IF g.phase # "showing" THEN [g EXCEPT !.timers = none]
        ELSE IF g.showingIndex < 0
             THEN [g EXCEPT !.timers = [none EXCEPT !.startDelay = [pending |-> TRUE]]]
        ELSE IF g.showingIndex >= Len(g.currentSequence)
             THEN [g EXCEPT !.timers = [none EXCEPT !.allShown = [pending |-> TRUE]]]
        ELSE [g EXCEPT !.timers = [none EXCEPT !.digit = [pending |-> TRUE]]]

DigitSpan_startDelay ==
    /\ game.id = "digitSpan"
    /\ game.timers.startDelay.pending
    /\ Deliver(DigitSpan_effects([game EXCEPT !.showingIndex = 0]), <<>>,
               DigitSpan_cleanup)

DigitSpan_showNext ==
    /\ game.id = "digitSpan"
    /\ game.timers.digit.pending
    /\ Deliver(DigitSpan_effects([game EXCEPT !.showingIndex = @ + 1]), <<>>,
               DigitSpan_cleanup)

DigitSpan_allShown ==
    /\ game.id = "digitSpan"
    /\ game.timers.allShown.pending
    /\ Deliver(DigitSpan_effects([game EXCEPT !.showingIndex = -1,
                                              !.phase = "input"]), <<>>,
               DigitSpan_cleanup)

\* A wrong answer may be given at every sequence length.
DigitSpan_mayFail(g) ==
    g.sequenceLength <= DigitSpan_SETTINGS[g.difficulty].maxLength

\* The keys a player is taken to press while digits are missing: the right next
\* digit, and as first digit a wrong one.
DigitSpan_presses(g) ==
    IF g.id # "digitSpan" \/ ~g.mounted THEN {}
    ELSE IF Len(g.playerInput) >= Len(g.currentSequence) THEN {}
    ELSE LET right == Reverse(g.currentSequence)[Len(g.playerInput) + 1]
         IN  {right} \cup (IF g.playerInput = <<>> /\ DigitSpan_mayFail(g)
                           THEN {(right + 1) % 10} ELSE {})

\* A key handler that takes digits in every phase.
DigitSpan_handleNumberPress_anyPhase(num) ==
    /\ game.id = "digitSpan"
    /\ game.mounted
    /\ Deliver([game EXCEPT !.playerInput = Append(@, num)], <<>>,
               DigitSpan_cleanup)

DigitSpan_handleNumberPress(num) ==
    /\ game.id = "digitSpan"
    /\ game.mounted
    /\ IF game.phase # "input" \/ game.gameOverRef
       THEN UNCHANGED vars
       ELSE Deliver([game EXCEPT !.playerInput = Append(@, num)], <<>>,
                    DigitSpan_cleanup)

DigitSpan_handleBackspace ==
    /\ game.id = "digitSpan"
    /\ game.mounted
    /\ IF game.phase # "input" \/ game.gameOverRef
       THEN UNCHANGED vars
       ELSE Deliver([game EXCEPT !.playerInput = SubSeq(@, 1, Len(@) - 1)], <<>>,
                    DigitSpan_cleanup)

\* The confirm key is pressed on a complete input, or earlier where a wrong
\* answer may be given.
DigitSpan_mayConfirm(g) ==
    /\ g.id = "digitSpan"
    /\ g.mounted
    /\ Len(g.playerInput) = Len(g.currentSequence) \/ DigitSpan_mayFail(g)

\* A round score with the first-try bonus on every correct recall.
DigitSpan_roundScore_alwaysBonus(g) == (g.sequenceLength * 20) + 10

\* const roundScore = sequenceLength * 20 + (firstTryAtLength ? 10 : 0)
DigitSpan_roundScore(g) ==
    (g.sequenceLength * 20) + (IF g.firstTryAtLength THEN 10 ELSE 0)

\* A threshold of two failures at every difficulty.
DigitSpan_maxFails_two(difficulty) == 2

\* A threshold of three failures at every difficulty.
DigitSpan_maxFails_three(difficulty) == 3

\* const maxFails = difficulty === 'easy' ? 3 : 2
DigitSpan_maxFails(difficulty) == IF difficulty = "easy" THEN 3 ELSE 2

DigitSpan_handleConfirm ==
    /\ game.id = "digitSpan"
    /\ game.mounted
    /\ LET settings == DigitSpan_SETTINGS[game.difficulty]
           isCorrect == game.playerInput = Reverse(game.currentSequence)
           roundScore == DigitSpan_roundScore(game)
           newScore == game.score + roundScore
           newFailCount == game.failCount + 1
           maxFails == DigitSpan_maxFails(game.difficulty)
           correct == [game EXCEPT
                         !.score = newScore,
                         !.longestCorrect = Max(@, game.sequenceLength),
                         !.failCount = 0,
                         !.phase = "feedback",
                         !.timers.confirm =
                             [pending |-> TRUE, kind |-> "advance",
                              sequenceLength |-> game.sequenceLength,
                              score |-> newScore]]
           failed == [game EXCEPT
                        !.phase = "feedback",
                        !.timers.confirm =
                            [pending |-> TRUE, kind |-> "gameOver",
                             sequenceLength |-> game.sequenceLength,
                             score |-> game.score]]
           again == [game EXCEPT
                       !.phase = "feedback",
                       !.failCount = newFailCount,
                       !.timers.confirm =
                           [pending |-> TRUE, kind |-> "retry",
                            sequenceLength |-> game.sequenceLength,
                            score |-> game.score]]
           next == IF isCorrect THEN correct
                   ELSE IF newFailCount >= maxFails THEN failed ELSE again
       IN  IF game.phase # "input" \/ game.gameOverRef
           THEN UNCHANGED vars
           ELSE Deliver(DigitSpan_effects([next EXCEPT !.confirmations = @ + 1]),
                        <<>>, DigitSpan_cleanup)

\* The setTimeout callbacks of handleConfirm (1500 ms after a right answer,
\* 2000 ms after a wrong one).  Nothing clears them at unmount: the state
\* setters then do nothing, the ref write and the onComplete call still happen.
DigitSpan_confirmTimeout ==
    /\ game.id = "digitSpan"
    /\ game.timers.confirm.pending
    /\ LET t == game.timers.confirm
           settings == DigitSpan_SETTINGS[game.difficulty]
           fired == [game EXCEPT !.timers.confirm = Idle]
           ends == \/ t.kind = "gameOver"
                   \/ t.kind = "advance" /\ t.sequenceLength + 1 > settings.maxLength
           over == [fired EXCEPT !.gameOverRef = TRUE]
           nextLength == IF t.kind = "advance" THEN t.sequenceLength + 1
                         ELSE t.sequenceLength
           shown == [fired EXCEPT
                       !.sequenceLength = nextLength,
                       !.currentSequence = DigitSpan_generateSequence(nextLength),
                       !.playerInput = <<>>,
                       !.showingIndex = -1,
                       !.firstTryAtLength = (t.kind = "advance"),
                       !.phase = "showing"]
       IN  IF ends
           THEN Deliver(IF game.mounted THEN [over EXCEPT !.phase = "done"] ELSE over,
                        <<t.score>>, DigitSpan_cleanup)
           ELSE Deliver(IF game.mounted THEN DigitSpan_effects(shown) ELSE fired,
                        <<>>, DigitSpan_cleanup)

(***************************************************************************)
(* games/SchulteGrid.tsx.  elapsed is counted in tenths of a second.       *)
(***************************************************************************)
SchulteGrid_SETTINGS ==
    [easy   |-> [size |-> 3, targetTime |-> 20],
     normal |-> [size |-> 4, targetTime |-> 30],
     hard   |-> [size |-> 5, targetTime |-> 50]]

SchulteGrid_total(difficulty) ==
    SchulteGrid_SETTINGS[difficulty].size * SchulteGrid_SETTINGS[difficulty].size

\* generateNumbers: one outcome of the shuffle, the numbers in order.  The
\* number in the cell at index (0-based).
SchulteGrid_numbers(index) == index + 1

\* calculateScore(elapsed, errors, targetTime), elapsed in tenths.
SchulteGrid_calculateScore(elapsed, errors, targetTime) ==
    LET base == 500
        timeBonus == IF elapsed <= targetTime * 10 THEN 300
                     ELSE IF elapsed <= targetTime * 15 THEN 200
                     ELSE IF elapsed <= targetTime * 20 THEN 100
                     ELSE 0
        errorPenalty == errors * 20
    IN  Max(0, (base + timeBonus) - errorPenalty)

SchulteGrid_mount(difficulty) ==
    [id |-> "schulte", mounted |-> TRUE, difficulty |-> difficulty,
     nextNumber |-> 1, completed |-> {}, errors |-> 0, elapsed |-> 0,
     started |-> FALSE, errorCell |-> Null,
     finishedRef |-> FALSE,
     timers |-> [interval |-> Idle, errorFlash |-> Idle, complete |-> Idle]]

\* The cleanups clear the stopwatch interval and errorTimerRef.current; the
\* zero-delay timeout that calls onComplete is not kept anywhere.
SchulteGrid_cleanup ==
    [refs |-> {"finishedRef"}, cleared |-> {"interval", "errorFlash"}]

\* The cells a player is taken to click: the one holding nextNumber, the one
\* after it (while fewer than MaxErrors errors), and the first cell.
SchulteGrid_clicks(g) ==
    IF g.id # "schulte" \/ ~g.mounted THEN {}
    ELSE {0} \cup {i \in {g.nextNumber - 1} : i < SchulteGrid_total(g.difficulty)}
             \cup {i \in {g.nextNumber} :
                      i < SchulteGrid_total(g.difficulty) /\ g.errors < MaxErrors}

\* A final time read without the extra tick.
SchulteGrid_finalElapsed_noTick(prev) == prev

\* const finalElapsed = Math.round((prev + 0.1) * 10) / 10, in tenths
SchulteGrid_finalElapsed(prev) == prev + 1

\* A handler that returns early only once the grid is finished.
SchulteGrid_ignores_finishedOnly(g, clickedNumber) == g.finishedRef

\* if (finishedRef.current) return; if (completed.has(clickedNumber)) return
SchulteGrid_ignores(g, clickedNumber) ==
    g.finishedRef \/ clickedNumber \in g.completed

\* A finish test that is met one number early.
SchulteGrid_isFinished_early(newNext, total) == newNext >= total

\* if (newNext > total)
SchulteGrid_isFinished(newNext, total) == newNext > total

SchulteGrid_handleCellClick(index) ==
    /\ game.id = "schulte"
    /\ game.mounted
    /\ LET settings == SchulteGrid_SETTINGS[game.difficulty]
           clickedNumber == SchulteGrid_numbers(index)
           ignored == SchulteGrid_ignores(game, clickedNumber)
           newNext == game.nextNumber + 1
           \* the interval effect runs when started turns true
           begun == [game EXCEPT !.started = TRUE,
                                 !.timers.interval =
                                     IF game.started THEN @ ELSE [pending |-> TRUE]]
           right == [begun EXCEPT !.completed = @ \cup {clickedNumber},
                                  !.nextNumber = newNext]
           finalElapsed == SchulteGrid_finalElapsed(game.elapsed)
           finished == [right EXCEPT
                          !.finishedRef = TRUE,
                          !.elapsed = finalElapsed,
                          !.timers.complete =
                              [pending |-> TRUE,
                               score |-> SchulteGrid_calculateScore(
                                             finalElapsed, game.errors,
                                             settings.targetTime)]]
           wrong == [begun EXCEPT !.errors = @ + 1,
                                  !.errorCell = index,
                                  !.timers.errorFlash = [pending |-> TRUE]]
           next == IF clickedNumber # game.nextNumber THEN wrong
                   ELSE IF SchulteGrid_isFinished(newNext,
                                                  SchulteGrid_total(game.difficulty))
                        THEN finished
                   ELSE right
       IN  IF ignored
           THEN UNCHANGED vars
           ELSE Deliver(next, <<>>, SchulteGrid_cleanup)

\* The stopwatch is read at half-target marks, one tick before and one tick
\* after them, up to MaxTargets target times: the numbers of 100 ms ticks
\* taken in a row.
MaxTargets == 2

SchulteGrid_bursts(g) ==
    IF g.id # "schulte" \/ ~g.mounted THEN {}
    ELSE LET half == SchulteGrid_SETTINGS[g.difficulty].targetTime * 5
         IN  {n \in {1, half - 1, half} :
                 /\ g.elapsed + n <= (2 * half * MaxTargets) + 1
                 /\ n = 1 => g.elapsed % half \in {0, half - 1}
                 /\ n = half - 1 => g.elapsed % half = 0}

\* n ticks of the 100 ms stopwatch interval.
SchulteGrid_tick(n) ==
    /\ game.id = "schulte"
    /\ game.timers.interval.pending
    /\ Deliver([game EXCEPT !.elapsed = @ + n], <<>>, SchulteGrid_cleanup)

\* The 300 ms error flash timeout.
SchulteGrid_errorTimeout ==
    /\ game.id = "schulte"
    /\ game.timers.errorFlash.pending
    /\ Deliver([game EXCEPT !.errorCell = Null, !.timers.errorFlash = Idle], <<>>,
               SchulteGrid_cleanup)

\* setTimeout(() => onComplete(score), 0), set when the last number is clicked.
SchulteGrid_completeTimeout ==
    /\ game.id = "schulte"
    /\ game.timers.complete.pending
    /\ Deliver([game EXCEPT !.timers.complete = Idle],
               <<game.timers.complete.score>>, SchulteGrid_cleanup)

(***************************************************************************)
(* games/PathMemory.tsx                                                    *)
(***************************************************************************)
PathMemory_SETTINGS ==
    [easy   |-> [gridSize |-> 3, startLength |-> 2, maxLength |-> 6],
     normal |-> [gridSize |-> 4, startLength |-> 3, maxLength |-> 8],
     hard   |-> [gridSize |-> 5, startLength |-> 4, maxLength |-> 10]]

\* Math.floor(Math.random() * totalCells), the n-th draw of a call: the stream
\* gives every cell twice in a row, from the cell seed on.
PathMemory_draw(seed, n, totalCells) == (seed + (n \div 2)) % totalCells

\* The while loop of generateSequence, before its n-th draw.
RECURSIVE PathMemory_loop(_, _, _, _, _)
PathMemory_loop(indices, n, length, totalCells, seed) ==
    IF Len(indices) >= length THEN indices
    ELSE LET r == PathMemory_draw(seed, n, totalCells)
             includes == \E i \in 1..Len(indices) : indices[i] = r
         IN  PathMemory_loop(IF includes THEN indices ELSE Append(indices, r),
                             n + 1, length, totalCells, seed)

\* A generator that pushes every draw.
PathMemory_generateSequence_unchecked(length, totalCells, seed) ==
    [i \in 1..length |-> PathMemory_draw(seed, i - 1, totalCells)]

\* generateSequence(length, totalCells)
PathMemory_generateSequence(length, totalCells, seed) ==
    PathMemory_loop(<<>>, 0, length, totalCells, seed)

\* const totalCells = gridSize * gridSize
PathMemory_totalCells(difficulty) ==
    PathMemory_SETTINGS[difficulty].gridSize * PathMemory_SETTINGS[difficulty].gridSize

\* A startRound that puts the length back to the first round's.
PathMemory_startRound_rewinds(g, length) ==
    [g EXCEPT !.sequence = PathMemory_generateSequence(
                                length, PathMemory_totalCells(g.difficulty),
                                g.randomSeed + length),
              !.currentLength = PathMemory_SETTINGS[g.difficulty].startLength,
              !.playerInput = <<>>,
              !.retryUsed = FALSE,
              !.phase = "ready",
              !.phaseRef = "ready",
              !.highlightIndex = -1,
              !.timers = [ready |-> [pending |-> TRUE], show |-> Idle, after |-> Idle]]

\* startRound(length): a new sequence, and the 1000 ms timer to show it.
PathMemory_startRound(g, length) ==
    [g EXCEPT !.sequence = PathMemory_generateSequence(
                                length, PathMemory_totalCells(g.difficulty),
                                g.randomSeed + length),
              !.playerInput = <<>>,
              !.retryUsed = FALSE,
              !.phase = "ready",
              !.phaseRef = "ready",
              !.highlightIndex = -1,
              !.timers = [ready |-> [pending |-> TRUE], show |-> Idle, after |-> Idle]]

\* startShowingSequence(seq): 2 * length + 1 timeouts, fired in order of delay.
PathMemory_startShowingSequence(g) ==
    [g EXCEPT !.phase = "showing",
              !.phaseRef = "showing",
              !.highlightIndex = -1,
              !.playerInput = <<>>,
              !.timers.show = [pending |-> TRUE, step |-> 0]]

\* The state after the mount effect has run startRound(startLength).
PathMemory_mount(difficulty, seed) ==
    PathMemory_startRound(
        [id |-> "pathMemory", mounted |-> TRUE, difficulty |-> difficulty,
         \* where the session's Math.random() stream starts, not a state cell
         randomSeed |-> seed,
         phase |-> "ready", sequence |-> <<>>, playerInput |-> <<>>,
         currentLength |-> PathMemory_SETTINGS[difficulty].startLength,
         highlightIndex |-> -1, score |-> 0, retryUsed |-> FALSE,
         \* history of the session, not a state cell: the retries granted so far
         retriesGranted |-> 0,
         phaseRef |-> "ready",
         timers |-> [ready |-> Idle, show |-> Idle, after |-> Idle]],
        PathMemory_SETTINGS[difficulty].startLength)

\* Every timeout is pushed to timeoutsRef, which the unmount cleanup clears.
PathMemory_cleanup == [refs |-> {"phaseRef"}, cleared |-> {"ready", "show", "after"}]

PathMemory_readyTimeout ==
    /\ game.id = "pathMemory"
    /\ game.timers.ready.pending
    /\ Deliver(PathMemory_startShowingSequence([game EXCEPT !.timers.ready = Idle]),
               <<>>, PathMemory_cleanup)

\* The next of the highlight timeouts: on, off, ..., then the input phase.
PathMemory_showTimeout ==
    /\ game.id = "pathMemory"
    /\ game.timers.show.pending
    /\ LET step == game.timers.show.step
           last == step = 2 * Len(game.sequence)
           shown == IF last
                    THEN [game EXCEPT !.highlightIndex = -1,
                                      !.phase = "input",
                                      !.phaseRef = "input",
                                      !.timers.show = Idle]
                    ELSE [game EXCEPT
                            !.highlightIndex = IF step % 2 = 0 THEN step \div 2 ELSE -1,
                            !.timers.show.step = step + 1]
       IN  Deliver(shown, <<>>, PathMemory_cleanup)

\* The cells a player is taken to click: the right one, and (at the first
\* MaxWrong lengths) its neighbour.
PathMemory_clicks(g) ==
    IF g.id # "pathMemory" \/ ~g.mounted THEN {}
    ELSE IF Len(g.playerInput) >= Len(g.sequence) THEN {0}
    ELSE LET right == g.sequence[Len(g.playerInput) + 1]
             settings == PathMemory_SETTINGS[g.difficulty]
         IN  {right} \cup (IF g.currentLength - settings.startLength < MaxWrong
                           THEN {(right + 1) % (settings.gridSize * settings.gridSize)}
                           ELSE {})

\* A round that earns 50 points whatever its length.
PathMemory_earned_flat(sequence) == 50

\* const earned = sequence.length * 50
PathMemory_earned(sequence) == Len(sequence) * 50

\* A retry granted after every failure.
PathMemory_mayRetry_always(g) == TRUE

\* if (!retryUsed): the first failure of a round
PathMemory_mayRetry(g) == ~g.retryUsed

PathMemory_handleCellClick(cellIndex) ==
    /\ game.id = "pathMemory"
    /\ game.mounted
    /\ LET settings == PathMemory_SETTINGS[game.difficulty]
           newInput == Append(game.playerInput, cellIndex)
           stepIndex == Len(newInput)
           isCorrectSoFar == newInput[stepIndex] = game.sequence[stepIndex]
           complete == Len(newInput) = Len(game.sequence)
           allCorrect == newInput = game.sequence
           newScore == game.score + PathMemory_earned(game.sequence)
           nextLength == game.currentLength + 1
           typed == [game EXCEPT !.playerInput = newInput]
           success ==
               IF nextLength > settings.maxLength
               THEN [typed EXCEPT !.score = newScore,
                                  !.phase = "success", !.phaseRef = "success",
                                  !.timers.after =
                                      [pending |-> TRUE, kind |-> "complete",
                                       score |-> newScore, length |-> nextLength]]
               ELSE [typed EXCEPT !.score = newScore,
                                  !.phase = "success", !.phaseRef = "success",
                                  !.currentLength = nextLength,
                                  !.timers.after =
                                      [pending |-> TRUE, kind |-> "startRound",
                                       score |-> newScore, length |-> nextLength]]
           failure ==
               IF PathMemory_mayRetry(game)
               THEN [typed EXCEPT !.retryUsed = TRUE,
                                  !.retriesGranted = @ + 1,
                                  !.phase = "error", !.phaseRef = "error",
                                  !.timers.after =
                                      [pending |-> TRUE, kind |-> "reshow",
                                       score |-> game.score,
                                       length |-> game.currentLength]]
               ELSE [typed EXCEPT !.phase = "gameover", !.phaseRef = "gameover",
                                  !.timers.after =
                                      [pending |-> TRUE, kind |-> "gameover",
                                       score |-> game.score,
                                       length |-> game.currentLength]]
           next == IF complete THEN (IF allCorrect THEN success ELSE failure)
                   ELSE IF ~isCorrectSoFar THEN failure
                   ELSE typed
       IN  IF game.phaseRef # "input"
           THEN UNCHANGED vars
           ELSE Deliver(next, <<>>, PathMemory_cleanup)

\* The timeout set by handleCellClick: the next round or onComplete 1200 ms
\* after a success, the sequence again 1200 ms after a first failure,
\* onComplete 800 ms after a second.
PathMemory_afterTimeout ==
    /\ game.id = "pathMemory"
    /\ game.timers.after.pending
    /\ LET t == game.timers.after
           fired == [game EXCEPT !.timers.after = Idle]
       IN  CASE t.kind = "complete" ->
                    Deliver([fired EXCEPT !.phase = "gameover", !.phaseRef = "gameover"],
                            <<t.score>>, PathMemory_cleanup)
             [] t.kind = "gameover" ->
                    Deliver(fired, <<t.score>>, PathMemory_cleanup)
             [] t.kind = "startRound" ->
                    Deliver(PathMemory_startRound(fired, t.length), <<>>,
                            PathMemory_cleanup)
             [] t.kind = "reshow" ->
                    Deliver(PathMemory_startShowingSequence(
                                [fired EXCEPT !.timers.ready = Idle, !.timers.show = Idle]),
                            <<>>, PathMemory_cleanup)

(***************************************************************************)
(* games/MemoryMatch.tsx, second component: ReactionTest                   *)
(***************************************************************************)
ReactionTest_SETTINGS ==
    [easy   |-> [trials |-> 8,  trickTrials |-> FALSE],
     normal |-> [trials |-> 12, trickTrials |-> FALSE],
     hard   |-> [trials |-> 15, trickTrials |-> TRUE]]

\* A trial score without the 150 ms floor.
ReactionTest_calculateTrialScore_noFloor(reactionTime) == Max(0, 800 - reactionTime)

ReactionTest_calculateTrialScore(reactionTime) ==
    IF reactionTime < 150 THEN 0 ELSE Max(0, 800 - reactionTime)

RECURSIVE ReactionTest_sum(_)
ReactionTest_sum(times) ==
    IF times = <<>> THEN 0
    ELSE ReactionTest_calculateTrialScore(Head(times)) + ReactionTest_sum(Tail(times))

\* Math.min(800, Math.round(Math.round(sum / length))), the quotient taken in
\* double arithmetic.
ReactionTest_normalizedScore(times) ==
    LET sum == ReactionTest_sum(times)
        totalScore == IF sum = 0 THEN 0 ELSE MathRound(DoubleDivide(sum, Len(times)))
    IN  Min(800, totalScore)

ReactionTest_mount(difficulty) ==
    [id |-> "reaction", mounted |-> TRUE, difficulty |-> difficulty,
     phase |-> "waiting", currentTrial |-> 0, reactionTimes |-> <<>>,
     lastReactionTime |-> Null,
     isTrickTrialRef |-> FALSE,
     timers |-> [first |-> [pending |-> TRUE], delay |-> Idle, trick |-> Idle,
                 advance |-> Idle, orphan |-> Idle]]

\* The unmount cleanups clear the first-trial timeout and the timeouts the three
\* refs hold; an advance timeout whose id was overwritten is held by none.
ReactionTest_cleanup ==
    [refs |-> {"isTrickTrialRef"}, cleared |-> {"first", "delay", "trick", "advance"}]

\* Whether startTrial may draw a trick trial.
ReactionTest_tricks(g) ==
    IF ReactionTest_SETTINGS[g.difficulty].trickTrials THEN {TRUE, FALSE} ELSE {FALSE}

\* startTrial() with isTrick drawn.
ReactionTest_startTrial(g, isTrick) ==
    LET timers == [g.timers EXCEPT
                     !.delay = [pending |-> TRUE, isTrick |-> isTrick,
                                second |-> FALSE],
                     !.trick = Idle]
    IN  IF g.mounted
        THEN [g EXCEPT !.phase = "ready", !.lastReactionTime = Null,
                       !.isTrickTrialRef = FALSE, !.timers = timers]
        ELSE [g EXCEPT !.isTrickTrialRef = FALSE, !.timers = timers]

\* The 1000 ms timeout of the mount effect.
ReactionTest_firstTimeout ==
    /\ game.id = "reaction"
    /\ game.timers.first.pending
    /\ \E isTrick \in ReactionTest_tricks(game) :
          Deliver(ReactionTest_startTrial([game EXCEPT !.timers.first = Idle], isTrick),
                  <<>>, ReactionTest_cleanup)

\* The timeout held by delayTimeoutRef: the signal, or the trick signal and
\* its 150 ms timeout.
ReactionTest_delayTimeout ==
    /\ game.id = "reaction"
    /\ game.timers.delay.pending
    /\ LET isTrick == game.timers.delay.isTrick
           timers == [game.timers EXCEPT
                        !.delay = Idle,
                        !.trick = IF isTrick THEN [pending |-> TRUE] ELSE @]
           next == IF game.mounted
                   THEN [game EXCEPT !.phase = "signal", !.timers = timers,
                                     !.isTrickTrialRef = IF isTrick THEN TRUE ELSE @]
                   ELSE [game EXCEPT !.timers = timers,
                                     !.isTrickTrialRef = IF isTrick THEN TRUE ELSE @]
       IN  Deliver(next, <<>>, ReactionTest_cleanup)

\* A trick timeout that leaves the signal on.
ReactionTest_trickTimeout_keepsSignal ==
    /\ game.id = "reaction"
    /\ game.timers.trick.pending
    /\ LET timers == [game.timers EXCEPT
                        !.trick = Idle,
                        !.delay = [pending |-> TRUE, isTrick |-> FALSE,
                                   second |-> TRUE]]
       IN  Deliver([game EXCEPT !.isTrickTrialRef = FALSE, !.timers = timers], <<>>,
                   ReactionTest_cleanup)

\* The trick timeout: back to ready, and a second delay before the real signal.
ReactionTest_trickTimeout ==
    /\ game.id = "reaction"
    /\ game.timers.trick.pending
    /\ LET timers == [game.timers EXCEPT
                        !.trick = Idle,
                        !.delay = [pending |-> TRUE, isTrick |-> FALSE,
                                   second |-> TRUE]]
           next == IF game.mounted
                   THEN [game EXCEPT !.phase = "ready", !.isTrickTrialRef = FALSE,
                                     !.timers = timers]
                   ELSE [game EXCEPT !.isTrickTrialRef = FALSE, !.timers = timers]
       IN  Deliver(next, <<>>, ReactionTest_cleanup)

\* The reaction times a player is taken to have: too fast, scoring, and too
\* slow in the first MaxWrong trials, scoring afterwards; none once an
\* overwritten advance timeout is still pending behind a pending one.
ReactionTimes == {100, 300, 900}

ReactionTest_reactions(g) ==
    IF g.id # "reaction" \/ ~g.mounted THEN {}
    ELSE IF g.timers.advance.pending /\ g.timers.orphan.pending THEN {}
    ELSE IF g.currentTrial < MaxWrong /\ Len(g.reactionTimes) < MaxWrong
         THEN ReactionTimes
    ELSE {300}

ReactionTest_handleCircleClick(reactionTime) ==
    /\ game.id = "reaction"
    /\ game.mounted
    /\ LET settings == ReactionTest_SETTINGS[game.difficulty]
           \* advanceTimeoutRef.current = setTimeout(...): the timeout it held
           \* stays pending
           advanced(t) == [game.timers EXCEPT
                             !.orphan = IF game.timers.advance.pending
                                        THEN game.timers.advance ELSE @,
                             !.advance = t]
           tooEarly ==
               [game EXCEPT
                  !.phase = "tooEarly",
                  !.timers = [advanced([pending |-> TRUE, kind |-> "startTrial",
                                        times |-> <<>>])
                                 EXCEPT !.delay = Idle, !.trick = Idle]]
           newReactionTimes == Append(game.reactionTimes, reactionTime)
           nextTrial == game.currentTrial + 1
           result ==
               [game EXCEPT
                  !.lastReactionTime = reactionTime,
                  !.phase = "result",
                  !.reactionTimes = newReactionTimes,
                  !.currentTrial = nextTrial,
                  !.timers = advanced(
                      IF nextTrial >= settings.trials
                      THEN [pending |-> TRUE, kind |-> "complete",
                            times |-> newReactionTimes]
                      ELSE [pending |-> TRUE, kind |-> "startTrial",
                            times |-> <<>>])]
       IN  CASE game.phase = "ready" -> Deliver(tooEarly, <<>>, ReactionTest_cleanup)
             [] game.phase = "signal" -> Deliver(result, <<>>, ReactionTest_cleanup)
             [] OTHER -> UNCHANGED vars

\* What a fired advance timeout t does to the component left as g.
ReactionTest_advance(g, t, isTrick) ==
    IF t.kind = "complete"
    THEN Deliver(g, <<ReactionTest_normalizedScore(t.times)>>, ReactionTest_cleanup)
    ELSE Deliver(ReactionTest_startTrial(g, isTrick), <<>>, ReactionTest_cleanup)

\* The 1500 ms timeout held by advanceTimeoutRef; an earlier one fires before it.
ReactionTest_advanceTimeout ==
    /\ game.id = "reaction"
    /\ game.timers.advance.pending
    /\ ~game.timers.orphan.pending
    /\ \E isTrick \in ReactionTest_tricks(game) :
          ReactionTest_advance([game EXCEPT !.timers.advance = Idle],
                               game.timers.advance, isTrick)

\* An earlier 1500 ms timeout, whose id advanceTimeoutRef no longer holds.  It
\* was set before the one the ref holds, so it fires first.
ReactionTest_orphanTimeout ==
    /\ game.id = "reaction"
    /\ game.timers.orphan.pending
    /\ \E isTrick \in ReactionTest_tricks(game) :
          ReactionTest_advance([game EXCEPT !.timers.orphan = Idle],
                               game.timers.orphan, isTrick)

\* Each component's refs and unmount cleanup.
Cleanup(id) ==
    CASE id = "memory" -> MemoryMatch_cleanup
      [] id = "wordSort" -> WordSort_cleanup
      [] id = "stroop" -> StroopTest_cleanup
      [] id = "patternReason" -> PatternReason_cleanup
      [] id = "arithmetic" -> ArithmeticChallenge_cleanup
      [] id = "digitSpan" -> DigitSpan_cleanup
      [] id = "schulte" -> SchulteGrid_cleanup
      [] id = "pathMemory" -> PathMemory_cleanup
      [] id = "reaction" -> ReactionTest_cleanup

(***************************************************************************)
(* App.tsx, GameWrapper.tsx, MainMenu.tsx, ResultPage.tsx and              *)
(* TrainingHistory.tsx: navigation between the pages, with the game        *)
(* component seen only through its onComplete call (specification SpecApp).*)
(***************************************************************************)
MaxSessions == 2

AppGames == {"memory", "stroop"}
AppScores == {0, 300, 600}

\* Bests left by earlier visits: none, all nine games, all but memory.
AppInitialBests ==
    {Entry("absent"),
     ObjEntry([g \in GameId |-> 400]),
     ObjEntry([g \in GameId \ {"memory"} |-> 400])}

AppInitialRecords == {Entry("absent"), Entry("garbage"), ArrEntry(Prefill(2))}

AppInit ==
    /\ bestStore \in AppInitialBests
    /\ recStore \in AppInitialRecords
    /\ history = loadRecords(recStore).items
    /\ now = Len(history) + 1
    /\ threw = FALSE
    /\ lastCall = NoCall
    /\ ops = 0
    /\ app = AppMounted
    /\ wrapper = FreshWrapper
    /\ results = <<>>
    /\ playedAt = [g \in GameId |-> "none"]
    /\ game = NoComponent

\* MainMenu: GAMES.every(game => scores[game.id] !== null)
allCompleted(scores) == \A g \in GameId : scores[g] # Null

\* ResultPage: every score is normalized with the 'normal' row of MAX_SCORES.
normalizedScores(scores) ==
    [g \in GameId |->
        IF scores[g] # Null THEN normalizeScore(g, "normal", scores[g]) ELSE 0]

\* MainMenu's start button: App.startGame mounts a GameWrapper.
startGame(gameId, diff) ==
    /\ app.page = "menu"
    /\ Len(results) < MaxSessions
    /\ app' = [app EXCEPT !.currentGame = gameId, !.difficulty = diff, !.page = "game"]
    /\ wrapper' = FreshWrapper
    /\ UNCHANGED <<storageVars, norm, game, results, playedAt>>

\* The mounted game component calls onComplete(finalScore).
handleComplete(finalScore) ==
    /\ app.page = "game"
    /\ wrapper.phase = "playing"
    /\ Len(results) < MaxSessions
    /\ wrapper' = [phase |-> "finished", score |-> finalScore,
                   bestScore |-> loadBestScores(bestStore)[app.currentGame]]
    /\ results' = Append(results, [gameId |-> app.currentGame,
                                   difficulty |-> app.difficulty,
                                   score |-> finalScore])
    /\ UNCHANGED <<storageVars, norm, game, app, playedAt>>

\* "play again" on the finished screen
handleRetry ==
    /\ app.page = "game"
    /\ wrapper.phase = "finished"
    /\ wrapper' = [wrapper EXCEPT !.phase = "playing"]
    /\ UNCHANGED <<storageVars, norm, game, app, results, playedAt>>

\* "return to menu" on the finished screen: onFinish(score) = App.finishGame.  A
\* TypeError out of saveRecord ends the handler; the setScores already queued is
\* still applied.
finishGame ==
    /\ app.page = "game"
    /\ wrapper.phase = "finished"
    /\ LET gameId == app.currentGame
           score == wrapper.score
           r == saveRecord(recStore, gameId, app.difficulty, score, now)
           scored == [app EXCEPT !.scores[gameId] = score]
       IN  /\ bestStore' = saveBestScore(bestStore, gameId, score)
           /\ recStore' = r.entry
           /\ threw' = (threw \/ r.threw)
           /\ history' = IF r.threw THEN history
                         ELSE Append(history,
                                 TrainingRecord(gameId, app.difficulty, score, now))
           /\ app' = IF r.threw THEN scored
                     ELSE [scored EXCEPT !.bestScores = loadBestScores(bestStore'),
                                         !.recordCount = Len(loadRecords(recStore').items),
                                         !.page = "menu"]
           /\ wrapper' = IF r.threw THEN wrapper ELSE FreshWrapper
           /\ playedAt' = [playedAt EXCEPT ![gameId] = app.difficulty]
    /\ now' = now + 1
    /\ UNCHANGED <<lastCall, ops, norm, game, results>>

\* The back arrow of the game, result and history pages.
backToMenu ==
    /\ app.page # "menu"
    /\ app' = [app EXCEPT !.page = "menu"]
    /\ wrapper' = FreshWrapper
    /\ game' = IF game.mounted THEN Unmounted(game, Cleanup(game.id)) ELSE game
    /\ UNCHANGED <<storageVars, norm, results, playedAt>>

showResult ==
    /\ app.page = "menu"
    /\ allCompleted(app.scores)
    /\ app' = [app EXCEPT !.page = "result"]
    /\ UNCHANGED <<storageVars, norm, game, wrapper, results, playedAt>>

showHistory ==
    /\ app.page = "menu"
    /\ app' = [app EXCEPT !.page = "history"]
    /\ UNCHANGED <<storageVars, norm, game, wrapper, results, playedAt>>

\* TrainingHistory.handleClear (offered when there are records): clearRecords()
\* and onBack(); App's own state cells are not reloaded.
handleClear ==
    /\ app.page = "history"
    /\ Len(loadRecords(recStore).items) > 0
    /\ recStore' = Entry("absent")
    /\ bestStore' = Entry("absent")
    /\ history' = <<>>
    /\ app' = [app EXCEPT !.page = "menu"]
    /\ UNCHANGED <<now, threw, lastCall, ops, norm, game, wrapper, results, playedAt>>

AppNext ==
    \/ \E g \in AppGames, d \in Difficulty : startGame(g, d)
    \/ \E s \in AppScores : handleComplete(s)
    \/ handleRetry
    \/ finishGame
    \/ backToMenu
    \/ showResult
    \/ showHistory
    \/ handleClear

AppStart == AppInit /\ NormIdle

SpecApp == AppStart /\ [][AppNext]_vars

(***************************************************************************)
(* One visit to a game page: GameWrapper mounted with its game component,  *)
(* until the component completes or the player goes back (specification    *)
(* Spec).                                                                  *)
(***************************************************************************)
Mount(gameId, difficulty, seed) ==
    CASE gameId = "memory" -> MemoryMatch_mount(difficulty)
      [] gameId = "wordSort" -> WordSort_mount(difficulty)
      [] gameId = "stroop" -> StroopTest_mount(difficulty)
      [] gameId = "patternReason" -> PatternReason_mount(difficulty, seed)
      [] gameId = "arithmetic" -> ArithmeticChallenge_mount(difficulty)
      [] gameId = "digitSpan" -> DigitSpan_mount(difficulty)
      [] gameId = "schulte" -> SchulteGrid_mount(difficulty)
      [] gameId = "pathMemory" -> PathMemory_mount(difficulty, seed)
      [] gameId = "reaction" -> ReactionTest_mount(difficulty)

PlayedGames == {"memory", "wordSort", "stroop", "patternReason", "arithmetic",
                "digitSpan", "schulte", "pathMemory", "reaction"}

\* The state App.startGame(gameId, difficulty) leads to, on a fresh store.
GameInit ==
    /\ StorageIdle
    /\ NormIdle
    /\ \E gameId \in PlayedGames, difficulty \in Difficulty, seed \in PatternSeeds :
          /\ app = [AppMounted EXCEPT !.currentGame = gameId,
                                      !.difficulty = difficulty,
                                      !.page = "game"]
          /\ game = Mount(gameId, difficulty, seed)
    /\ wrapper = FreshWrapper
    /\ results = <<>>
    /\ playedAt = [g \in GameId |-> "none"]

GameNext ==
    \/ \E index \in MemoryMatch_clicks(game) : MemoryMatch_handleCardClick(index)
    \/ MemoryMatch_checkTimeout
    \/ MemoryMatch_tick
    \/ \E c \in WordSort_choices(game) : WordSort_handleCategoryClick(c)
    \/ WordSort_feedbackTimeout
    \/ WordSort_tick
    \/ \E c \in StroopTest_choices(game), t \in AnswerTimes :
          StroopTest_handleOptionClick(c, t)
    \/ StroopTest_feedbackTimeout
    \/ \E o \in PatternReason_choices(game), t \in PatternTimes :
          PatternReason_handleOptionClick(o, t)
    \/ PatternReason_feedbackTimeout
    \/ \E v \in ArithmeticChallenge_choices(game) :
          ArithmeticChallenge_handleOptionClick(v)
    \/ ArithmeticChallenge_feedbackTimeout
    \/ ArithmeticChallenge_tick
    \/ DigitSpan_startDelay
    \/ DigitSpan_showNext
    \/ DigitSpan_allShown
    \/ \E num \in DigitSpan_presses(game) : DigitSpan_handleNumberPress(num)
    \/ DigitSpan_handleBackspace
    \/ DigitSpan_mayConfirm(game) /\ DigitSpan_handleConfirm
    \/ DigitSpan_confirmTimeout
    \/ \E index \in SchulteGrid_clicks(game) : SchulteGrid_handleCellClick(index)
    \/ \E n \in SchulteGrid_bursts(game) : SchulteGrid_tick(n)
    \/ SchulteGrid_errorTimeout
    \/ SchulteGrid_completeTimeout
    \/ PathMemory_readyTimeout
    \/ PathMemory_showTimeout
    \/ \E cell \in PathMemory_clicks(game) : PathMemory_handleCellClick(cell)
    \/ PathMemory_afterTimeout
    \/ ReactionTest_firstTimeout
    \/ ReactionTest_delayTimeout
    \/ ReactionTest_trickTimeout
    \/ \E rt \in ReactionTest_reactions(game) : ReactionTest_handleCircleClick(rt)
    \/ ReactionTest_advanceTimeout
    \/ ReactionTest_orphanTimeout
    \/ backToMenu

Spec == GameInit /\ [][GameNext]_vars

(***************************************************************************)
(* components/ResultPage.tsx                                               *)
(***************************************************************************)
\* GAMES.filter(game => scores[game.id] !== null), in the order of GAMES.
ResultPage_playedGames(scores) ==
    SelectSeq(GAMES, LAMBDA g : scores[g] # Null)

\* playedGames.reduce((sum, game) => sum + normalizeScore(game.id, 'normal', ...), 0)
RECURSIVE ResultPage_reduce(_, _)
ResultPage_reduce(playedGames, scores) ==
    IF playedGames = <<>> THEN 0
    ELSE ResultPage_reduce(SubSeq(playedGames, 1, Len(playedGames) - 1), scores)
         + normalizeScore(playedGames[Len(playedGames)], "normal",
                          scores[playedGames[Len(playedGames)]])

\* An average that divides by the number of all games.
ResultPage_average_ofAll(scores) ==
    LET sum == ResultPage_reduce(ResultPage_playedGames(scores), scores)
    IN  IF sum = 0 THEN 0 ELSE MathRound(DoubleDivide(sum, Len(GAMES)))

\* Math.round(sum / playedGames.length), or 0 without played games; the
\* quotient is taken in double arithmetic.
ResultPage_average(scores) ==
    LET playedGames == ResultPage_playedGames(scores)
        sum == ResultPage_reduce(playedGames, scores)
    IN  IF Len(playedGames) > 0
        THEN (IF sum = 0 THEN 0 ELSE MathRound(DoubleDivide(sum, Len(playedGames))))
        ELSE 0

\* The raw scores a result page is rendered with: none, a low and a high one.
ResultRaw == {Null, 130, 455}

ResultInit ==
    /\ StorageIdle
    /\ NormIdle
    /\ game = NoComponent
    /\ wrapper = FreshWrapper
    /\ results = <<>>
    /\ playedAt = [g \in GameId |-> "none"]
    /\ \E scores \in [GameId -> ResultRaw] :
          app = [page |-> "result", currentGame |-> NoGame, difficulty |-> "normal",
                 bestScores |-> scores, scores |-> scores, recordCount |-> 0]

\* One render of ResultPage with the scores prop.
ResultPage ==
    /\ app.page = "result"
    /\ NormIdle
    /\ norm' = [normalizedScores |-> normalizedScores(app.scores),
                average |-> ResultPage_average(app.scores),
                rating |-> getRating(ResultPage_average(app.scores))]
    /\ UNCHANGED <<storageVars, appVars>>

SpecResult == ResultInit /\ [][ResultPage]_vars

(***************************************************************************)
(* getRating applied to two averages                                       *)
(***************************************************************************)
\* The averages ResultPage can pass: Math.round of a mean of values in 0..100.
Averages == 0..100

RatingInit ==
    /\ StorageIdle
    /\ AppIdle
    /\ \E avg \in Averages, other \in Averages :
          norm = [avg |-> avg, other |-> other, rated |-> FALSE]

\* getRating(avg) and getRating(other).
Rate ==
    /\ ~norm.rated
    /\ norm' = [avg |-> norm.avg, other |-> norm.other, rated |-> TRUE,
                rating |-> getRating(norm.avg),
                otherRating |-> getRating(norm.other)]
    /\ UNCHANGED <<storageVars, appVars>>

SpecRating == RatingInit /\ [][Rate]_vars

(***************************************************************************)
(* Sessions with a time budget, with countdown intervals that keep firing  *)
(***************************************************************************)
TimedGames == {"arithmetic", "wordSort"}

TimedInit ==
    /\ StorageIdle
    /\ NormIdle
    /\ \E gameId \in TimedGames, difficulty \in Difficulty :
          /\ app = [AppMounted EXCEPT !.currentGame = gameId,
                                      !.difficulty = difficulty,
                                      !.page = "game"]
          /\ game = Mount(gameId, difficulty, 0)
    /\ wrapper = FreshWrapper
    /\ results = <<>>
    /\ playedAt = [g \in GameId |-> "none"]

TimedNext ==
    \/ \E c \in WordSort_choices(game) : WordSort_handleCategoryClick(c)
    \/ WordSort_feedbackTimeout
    \/ WordSort_tick
    \/ \E v \in ArithmeticChallenge_choices(game) :
          ArithmeticChallenge_handleOptionClick(v)
    \/ ArithmeticChallenge_feedbackTimeout
    \/ ArithmeticChallenge_tick
    \/ backToMenu

\* setInterval callbacks are run as long as the interval is not cleared.
SpecTimed ==
    /\ TimedInit
    /\ [][TimedNext]_vars
    /\ WF_vars(ArithmeticChallenge_tick)
    /\ WF_vars(WordSort_tick)

(***************************************************************************)
(* generateProblem applied to a difficulty, a problem index and the draws  *)
(***************************************************************************)
\* Problem indexes on both sides of the tier steps (8 on easy, 5 otherwise) and
\* past the last tier.
ProblemIndexes == {0, 4, 5, 8, 20, 40}

ProblemDraws ==
    [op : Quarters, x : Quarters, y : Quarters, order : Quarters, seed : Quarters]

ProblemInit ==
    /\ StorageIdle
    /\ AppIdle
    /\ \E difficulty \in Difficulty, problemIndex \in ProblemIndexes,
          draws \in ProblemDraws :
          norm = [difficulty |-> difficulty, problemIndex |-> problemIndex,
                  draws |-> draws, generated |-> FALSE]

\* generateProblem(difficulty, problemIndex)
Generate ==
    /\ ~norm.generated
    /\ norm' = [difficulty |-> norm.difficulty, problemIndex |-> norm.problemIndex,
                draws |-> norm.draws, generated |-> TRUE,
                problem |-> ArithmeticChallenge_generateProblem(
                                norm.difficulty, norm.problemIndex, norm.draws)]
    /\ UNCHANGED <<storageVars, appVars>>

SpecProblem == ProblemInit /\ [][Generate]_vars

(***************************************************************************)
(* finishGame and clearRecords from an empty store, until the log has      *)
(* dropped records (specification SpecLog).                                *)
(***************************************************************************)
\* After a clear or the start, the player finishes FreeFinishes sessions of any
\* game in StoreGames with any score in LogScores, and then repeats stroop
\* sessions scoring 50, MaxFinishes sessions in all: two more than the log keeps.
LogScores == {0, 100}
FreeFinishes == 2
MaxFinishes == MaxRecords + 2
MaxClears == 1

Finishes ==
    IF Len(history) >= MaxFinishes THEN {}
    ELSE IF Len(history) < FreeFinishes
         THEN [gameId : StoreGames, score : LogScores]
    ELSE {[gameId |-> "stroop", score |-> 50]}

\* The storage calls of App.finishGame(gameId, score).
Finish(gameId, score) ==
    /\ [gameId |-> gameId, score |-> score] \in Finishes
    /\ bestStore' = saveBestScore(bestStore, gameId, score)
    /\ LET r == saveRecord(recStore, gameId, "normal", score, now)
       IN  /\ recStore' = r.entry
           /\ threw' = (threw \/ r.threw)
           /\ history' = IF r.threw THEN history
                         ELSE Append(history, TrainingRecord(gameId, "normal", score, now))
    /\ now' = now + 1
    /\ lastCall' = [op |-> "finishGame", gameId |-> gameId, score |-> score]
    /\ UNCHANGED <<ops, norm, appVars>>

\* clearRecords(), after the free sessions or once the log has dropped records.
Clear ==
    /\ ops < MaxClears
    /\ Len(history) \in {FreeFinishes, MaxFinishes}
    /\ recStore' = Entry("absent")
    /\ bestStore' = Entry("absent")
    /\ history' = <<>>
    /\ lastCall' = [op |-> "clearRecords", gameId |-> "memory", score |-> 0]
    /\ ops' = ops + 1
    /\ UNCHANGED <<now, threw, norm, appVars>>

LogNext ==
    \/ \E g \in StoreGames, s \in LogScores \cup {50} : Finish(g, s)
    \/ Clear

LogInit == StorageIdle /\ NormIdle /\ AppIdle

SpecLog == LogInit /\ [][LogNext]_vars

(***************************************************************************)
(* Digit-span sessions of a player who confirms in every input phase, with *)
(* timeouts that fire (specification SpecDigit).                           *)
(***************************************************************************)
DigitInit ==
    /\ StorageIdle
    /\ NormIdle
    /\ \E difficulty \in Difficulty :
          /\ app = [AppMounted EXCEPT !.currentGame = "digitSpan",
                                      !.difficulty = difficulty,
                                      !.page = "game"]
          /\ game = Mount("digitSpan", difficulty, 0)
    /\ wrapper = FreshWrapper
    /\ results = <<>>
    /\ playedAt = [g \in GameId |-> "none"]

DigitNext ==
    \/ DigitSpan_startDelay
    \/ DigitSpan_showNext
    \/ DigitSpan_allShown
    \/ \E num \in DigitSpan_presses(game) : DigitSpan_handleNumberPress(num)
    \/ DigitSpan_handleBackspace
    \/ DigitSpan_mayConfirm(game) /\ DigitSpan_handleConfirm
    \/ DigitSpan_confirmTimeout
    \/ backToMenu

\* A timeout that is not cleared fires; the player comes to press confirm in
\* an input phase.
SpecDigit ==
    /\ DigitInit
    /\ [][DigitNext]_vars
    /\ WF_vars(DigitSpan_startDelay)
    /\ WF_vars(DigitSpan_showNext)
    /\ WF_vars(DigitSpan_allShown)
    /\ WF_vars(DigitSpan_confirmTimeout)
    /\ WF_vars(DigitSpan_mayConfirm(game) /\ DigitSpan_handleConfirm)

(***************************************************************************)
(* Properties                                                              *)
(***************************************************************************)
\* round(num / den) of the exact quotient, halves rounded up.
RoundHalfUp(num, den) == ((2 * num) + den) \div (2 * den)

\* C6: the training log holds at most 200 records and is exactly the last 200 of
\* the records appended, in the order of their appends (oldest evicted first).
Thm_C6 ==
    recStore.kind = "arr" =>
        /\ Len(recStore.items) <= MaxRecords
        /\ recStore.items = LastN(history, MaxRecords)

\* 205 appends have been made: the log holds exactly appends 6..205.
Witness_C6 ==
    /\ lastCall.op = "saveRecord"
    /\ Len(history) = 205
    /\ Len(recStore.items) = 200
    /\ recStore.items[1] = history[6]
    /\ recStore.items[200] = history[205]

\* C7: a saveBestScore(g, s) call never lowers a stored best; it writes only when
\* g has no best or s is strictly higher, leaves the store as it is otherwise,
\* and never changes another game's best.
Thm_C7 ==
    [][lastCall'.op = "saveBestScore" =>
          LET old == loadBestScores(bestStore)
              new == loadBestScores(bestStore')
              g   == lastCall'.gameId
              s   == lastCall'.score
              higher == old[g] = Null \/ s > old[g]
          IN  /\ \A h \in GameId : new[h] >= old[h]
              /\ \A h \in GameId \ {g} : new[h] = old[h]
              /\ higher => new[g] = s
              /\ ~higher => bestStore' = bestStore]_vars

\* A call with a lower score has been made and the higher best is still stored.
Witness_C7 ==
    /\ lastCall.op = "saveBestScore"
    /\ lastCall.score < loadBestScores(bestStore)[lastCall.gameId]

\* C8: whatever the store holds (missing, unparseable, or parseable with the
\* wrong shape), no saveBestScore or saveRecord call fails.
Cx_C8 == ~threw

\* C9: normalizeScore(game, difficulty, raw) is min(100, round(raw / max * 100))
\* with max = MAX_SCORES[game][difficulty], and lies in 0..100.
Cx_C9 ==
    norm.result # Null =>
        /\ norm.result \in 0..100
        /\ norm.result = Min(100, RoundHalfUp(100 * norm.raw,
                                      MAX_SCORES[norm.gameId][norm.difficulty]))

\* C5: whatever takes the player off the finished screen (return to menu, play
\* again, back), that step appends a record of the finished score to the training
\* log and leaves a best score for the game that is at least that score.
Cx_C5 ==
    [][(/\ app.page = "game" /\ wrapper.phase = "finished"
        /\ ~(app'.page = "game" /\ wrapper'.phase = "finished"))
       => LET records == loadRecords(recStore').items
              best == loadBestScores(bestStore')[app.currentGame]
          IN  /\ records # <<>>
              /\ records[Len(records)] =
                    TrainingRecord(app.currentGame, app.difficulty, wrapper.score, now)
              /\ best # Null
              /\ best >= wrapper.score]_vars

\* C10: on the result page, the normalized score of every game played in this
\* visit is its raw score normalized against the maximum of the difficulty it
\* was played at.
Cx_C10 ==
    app.page = "result" =>
        \A g \in GameId :
            playedAt[g] # "none" =>
                normalizedScores(app.scores)[g] = normalizeScore(g, playedAt[g], app.scores[g])

(***************************************************************************)
(* Completion of a session                                                 *)
(***************************************************************************)
\* The sessions with two completion paths.
TwoPaths ==
    \/ game.id = "memory" /\ game.difficulty = "hard"
    \/ game.id = "wordSort" /\ game.difficulty \in {"normal", "hard"}
    \/ game.id = "arithmetic"

\* The terminal condition of a mounted session with two completion paths.
Terminal(g) ==
    CASE g.id = "memory" ->
             \/ g.gameStarted /\ g.timeLeft = 0
             \/ g.matches = MemoryMatch_SETTINGS[g.difficulty].pairs
      [] g.id = "wordSort" -> g.gameOver \/ g.timeLeft = 0
      [] g.id = "arithmetic" -> g.timeLeft = 0

\* C1: in memory match (hard), categorization (normal, hard) and arithmetic,
\* whatever the order of clicks and timer callbacks, onComplete is called at
\* most once in a session, a session still mounted has neither reached a
\* terminal condition nor called onComplete, and the finished screen is shown
\* after exactly one call.
Thm_C1 ==
    TwoPaths =>
        /\ Len(results) <= 1
        /\ game.mounted => ~Terminal(game) /\ results = <<>>
        /\ wrapper.phase = "finished" => Len(results) = 1

\* Memory match in hard mode timed out while the timeout of a matching pair was
\* pending: both completion paths were about to fire, onComplete was called once.
Witness_C1 ==
    /\ game.id = "memory"
    /\ game.difficulty = "hard"
    /\ ~game.mounted
    /\ game.timers.check.pending
    /\ game.timers.check.match
    /\ Len(results) = 1

\* C2: in every game at every difficulty, every value passed to onComplete is
\* an integer not below 0.
Thm_C2 == \A i \in 1..Len(results) : results[i].score \in Nat

\* A categorization session has completed with score 0.
Witness_C2 ==
    /\ results # <<>>
    /\ results[1].gameId = "wordSort"
    /\ results[1].score = 0

\* The games of C3, and the round each is at.
AnswerGames == {"stroop", "wordSort", "arithmetic", "patternReason"}

AnswerRound(g) ==
    CASE g.id = "stroop" -> g.roundRef
      [] g.id = "wordSort" -> g.currentIndex
      [] g.id = "arithmetic" -> g.problemIndexRef
      [] g.id = "patternReason" -> g.currentQuestion

\* C3: in the Stroop, categorization, arithmetic and pattern games, from an
\* accepted answer until its feedback timeout fires no step changes the score
\* or the round (a second click is dropped), and the round advances by exactly
\* one per answer: at the click in the Stroop game, at the timeout in the others.
Thm_C3 ==
    [][(/\ game.id \in AnswerGames
        /\ game.mounted
        /\ game.timers.feedback.pending
        /\ game'.mounted)
       => /\ game'.score = game.score
          /\ AnswerRound(game') =
                 AnswerRound(game)
                 + (IF game'.timers.feedback.pending \/ game.id = "stroop"
                    THEN 0 ELSE 1)]_vars

\* A Stroop answer is being processed and the player can click again.
Witness_C3 ==
    /\ game.id = "stroop"
    /\ game.mounted
    /\ game.isProcessing
    /\ game.timers.feedback.pending
    /\ game.score > 0
    /\ StroopTest_choices(game) # {}

\* C4: once the component of a session is unmounted, no callback of that
\* session calls onComplete.
Cx_C4 == [][~game.mounted => results' = results]_vars

(***************************************************************************)
(* The result page                                                         *)
(***************************************************************************)
\* The games with a score, and the sum of their normalized scores.
Played(scores) == {g \in GameId : scores[g] # Null}

RECURSIVE SumNormalized(_, _)
SumNormalized(S, scores) ==
    IF S = {} THEN 0
    ELSE LET g == CHOOSE x \in S : TRUE
         IN  normalizeScore(g, "normal", scores[g]) + SumNormalized(S \ {g}, scores)

\* C11: the average on the result page is the mean, rounded half up, of the
\* normalized scores of the games that have a score (the others are in neither
\* the sum nor the divisor), and 0 when no game has a score.
Thm_C11 ==
    (~NormIdle /\ app.page = "result") =>
        norm.average =
            IF Played(app.scores) = {} THEN 0
            ELSE RoundHalfUp(SumNormalized(Played(app.scores), app.scores),
                             Cardinality(Played(app.scores)))

\* A page rendered with some games unplayed, whose mean ends in one half.
Witness_C11 ==
    /\ ~NormIdle
    /\ app.page = "result"
    /\ Cardinality(Played(app.scores)) \in 1..8
    /\ 2 * SumNormalized(Played(app.scores), app.scores)
           % (2 * Cardinality(Played(app.scores))) = Cardinality(Played(app.scores))

(***************************************************************************)
(* Memory match                                                            *)
(***************************************************************************)
\* The cards that are face up and not matched.
OpenCards(g) == {i \in DOMAIN g.cards : g.cards[i].flipped /\ ~g.cards[i].matched}

\* C12: in memory match at most two cards are face up and unmatched after
\* every step, and a click on a card while two cards are open, while a
\* comparison is pending, after game over, or on a flipped or matched card
\* changes nothing.
Thm_C12 ==
    [][(game.id = "memory" /\ game.mounted) =>
          /\ game'.mounted => Cardinality(OpenCards(game')) <= 2
          /\ \A index \in DOMAIN game.cards :
                (/\ \/ Cardinality(OpenCards(game)) >= 2
                    \/ game.isChecking
                    \/ game.gameOver
                    \/ game.cards[index].flipped
                    \/ game.cards[index].matched
                 /\ MemoryMatch_handleCardClick(index))
                => UNCHANGED vars]_vars

\* Two unmatched cards are face up, their comparison is pending, and a third
\* card can be clicked.
Witness_C12 ==
    /\ game.id = "memory"
    /\ game.mounted
    /\ Cardinality(OpenCards(game)) = 2
    /\ game.isChecking
    /\ ~game.timers.check.match
    /\ \E index \in MemoryMatch_clicks(game) :
          ~game.cards[index].flipped /\ ~game.cards[index].matched

(***************************************************************************)
(* Spatial recall                                                          *)
(***************************************************************************)
\* 50 x (from + ... + to)
RoundPoints(from, to) ==
    IF to < from THEN 0 ELSE (50 * ((to * (to + 1)) - (from * (from - 1)))) \div 2

\* A step of a mounted spatial-recall session that stays mounted.
PathStep == game.id = "pathMemory" /\ game.mounted /\ game'.mounted

\* C13: in spatial recall a step that completes a round correctly adds 50 x
\* the current sequence length to the score and no other step changes the
\* score; on easy the max-length-exceeded path is reached after the rounds of
\* length 2..6 and calls onComplete(1000).
Thm_C13 ==
    [][/\ PathStep =>
            IF game.phase = "input" /\ game'.phase = "success"
            THEN /\ Len(game.sequence) = game.currentLength
                 /\ game'.score = game.score + (50 * game.currentLength)
            ELSE game'.score = game.score
       /\ (/\ game.id = "pathMemory"
           /\ game.mounted
           /\ game.timers.after.pending
           /\ game.timers.after.kind = "complete")
          => /\ game.currentLength = PathMemory_SETTINGS[game.difficulty].maxLength
             /\ game.score = RoundPoints(PathMemory_SETTINGS[game.difficulty].startLength,
                                         PathMemory_SETTINGS[game.difficulty].maxLength)
             /\ game.difficulty = "easy" => game.score = 1000
             /\ results' # results =>
                    results' = Append(results, [gameId |-> "pathMemory",
                                                difficulty |-> game.difficulty,
                                                score |-> game.score])]_vars

\* An easy session has gone through the max-length-exceeded path without a
\* retry and has called onComplete(1000).
Witness_C13 ==
    /\ game.id = "pathMemory"
    /\ game.difficulty = "easy"
    /\ ~game.mounted
    /\ results = <<[gameId |-> "pathMemory", difficulty |-> "easy", score |-> 1000]>>

\* The click of a step in the input phase was a failed attempt: the input grew
\* by a cell that is not the sequence's.
FailedAttempt ==
    /\ game.id = "pathMemory"
    /\ game.mounted
    /\ game.phase = "input"
    /\ game'.mounted
    /\ Len(game'.playerInput) = Len(game.playerInput) + 1
    /\ game'.playerInput[Len(game'.playerInput)]
          # game.sequence[Len(game'.playerInput)]

Cx_C15 ==
    (game.id = "pathMemory" /\ game.mounted) => game.retriesGranted <= 1

(***************************************************************************)
(* Reaction                                                                *)
(***************************************************************************)
\* The trick signal has been withdrawn and the genuine signal is yet to come.
Withdrawn ==
    /\ game.id = "reaction"
    /\ game.mounted
    /\ game.timers.delay.pending
    /\ game.timers.delay.second

\* C16: in a trick trial, once the brief signal is withdrawn the phase is ready
\* again, and a click before the genuine signal is a false start: no reaction
\* time is recorded, the trial counter stays, the pending signal timers are
\* cancelled and the trial is started again 1500 ms later.
Thm_C16 ==
    [][Withdrawn =>
          /\ game.phase = "ready"
          /\ \A rt \in ReactionTimes :
                ReactionTest_handleCircleClick(rt) =>
                    /\ game'.phase = "tooEarly"
                    /\ game'.reactionTimes = game.reactionTimes
                    /\ game'.currentTrial = game.currentTrial
                    /\ ~game'.timers.delay.pending
                    /\ ~game'.timers.trick.pending
                    /\ game'.timers.advance.pending
                    /\ game'.timers.advance.kind = "startTrial"]_vars

\* The signal of a trick trial has been withdrawn, the second delay is running
\* and the player can click.
Witness_C16 ==
    /\ Withdrawn
    /\ game.phase = "ready"
    /\ game.difficulty = "hard"
    /\ ~game.timers.trick.pending
    /\ ReactionTest_reactions(game) # {}

\* C17: a click while the brief signal of a trick trial is displayed records
\* no reaction time and does not advance the trial counter.
Cx_C17 ==
    [][(/\ game.id = "reaction"
        /\ game.mounted
        /\ game.phase = "signal"
        /\ game.isTrickTrialRef
        /\ game'.mounted)
       => /\ game'.reactionTimes = game.reactionTimes
          /\ game'.currentTrial = game.currentTrial]_vars

\* The contribution of a trial, and the sum over the recorded trials.
Contribution(time) == IF time < 150 THEN 0 ELSE Max(0, 800 - time)

RECURSIVE Contributions(_)
Contributions(times) ==
    IF times = <<>> THEN 0
    ELSE Contribution(times[Len(times)])
         + Contributions(SubSeq(times, 1, Len(times) - 1))

\* The advance timeout that fires next.
NextAdvance(g) == IF g.timers.orphan.pending THEN g.timers.orphan ELSE g.timers.advance

\* C18: in the reaction game a click in the signal phase records its reaction
\* time and advances the trial counter by one, also below 150 ms; a time below
\* 150 ms contributes 0 and any other max(0, 800 - time) (120 ms: 0, 250 ms:
\* 550); onComplete is called only with exactly the configured number of
\* recorded trials, with min(800, mean of the contributions rounded half up).
Thm_C18 ==
    [][/\ ReactionTest_calculateTrialScore(120) = 0
       /\ ReactionTest_calculateTrialScore(250) = 550
       /\ (game.id = "reaction" /\ game.mounted /\ game.phase = "signal") =>
             \A rt \in ReactionTimes :
                ReactionTest_handleCircleClick(rt) =>
                    /\ game'.reactionTimes = Append(game.reactionTimes, rt)
                    /\ game'.currentTrial = game.currentTrial + 1
       /\ (game.id = "reaction" /\ results' # results) =>
             LET t == NextAdvance(game)
             IN  /\ t.pending
                 /\ t.kind = "complete"
                 /\ Len(t.times) = ReactionTest_SETTINGS[game.difficulty].trials
                 /\ results' =
                        Append(results,
                               [gameId |-> "reaction", difficulty |-> game.difficulty,
                                score |-> Min(800, RoundHalfUp(Contributions(t.times),
                                                               Len(t.times)))])]_vars

\* An easy session of eight trials, one at 100 ms, one at 900 ms and six at
\* 300 ms, has called onComplete(375).
Witness_C18 ==
    /\ game.id = "reaction"
    /\ ~game.mounted
    /\ results = <<[gameId |-> "reaction", difficulty |-> "easy", score |-> 375]>>

(***************************************************************************)
(* Digit span                                                              *)
(***************************************************************************)
\* A step in which the confirm key is taken in the input phase.
Confirmed ==
    /\ game.id = "digitSpan"
    /\ game.mounted
    /\ game.phase = "input"
    /\ game'.mounted
    /\ game'.phase = "feedback"

\* The recall confirmed is the sequence reversed.
CorrectRecall ==
    /\ Len(game.playerInput) = Len(game.currentSequence)
    /\ \A i \in 1..Len(game.playerInput) :
          game.playerInput[i] = game.currentSequence[Len(game.currentSequence) + 1 - i]

\* C19: in digit span a correct reversed recall at length L adds 20 x L points,
\* and 10 more when no recall has failed at that length (length 3: 70 on the
\* first try, 60 after a failed try); a wrong recall and every other step
\* leave the score as it is.
Thm_C19 ==
    [][(game.id = "digitSpan" /\ game.mounted /\ game'.mounted) =>
          /\ Len(game.currentSequence) = game.sequenceLength
          /\ game'.score =
                IF Confirmed /\ CorrectRecall
                THEN game.score + (20 * game.sequenceLength)
                                + (IF game.failCount = 0 THEN 10 ELSE 0)
                ELSE game.score]_vars

\* On normal the length-3 sequence was recalled correctly after one failed
\* try: 60 points.
Witness_C19 ==
    /\ game.id = "digitSpan"
    /\ game.mounted
    /\ game.difficulty = "normal"
    /\ game.phase = "feedback"
    /\ game.sequenceLength = 3
    /\ game.score = 60

Cx_C21 ==
    [][(Confirmed /\ ~CorrectRecall /\ game.failCount = 1) =>
          game'.timers.confirm.kind = "gameOver"]_vars


(***************************************************************************)
(* Grid search                                                             *)
(***************************************************************************)
\* The cells of the grid whose number has been consumed.
Consumed(g) ==
    {i \in 0..(SchulteGrid_total(g.difficulty) - 1) :
        SchulteGrid_numbers(i) \in g.completed}

\* C22: in grid search a click on a cell whose number is consumed changes
\* nothing (errors, next number, consumed set, completion), and the error
\* count moves only by one, on a click on a cell whose number is neither
\* consumed nor the expected one.
Thm_C22 ==
    [][(game.id = "schulte" /\ game.mounted) =>
          /\ \A i \in Consumed(game) :
                SchulteGrid_handleCellClick(i) => UNCHANGED vars
          /\ (game'.mounted /\ game'.errors # game.errors) =>
                /\ game'.errors = game.errors + 1
                /\ game'.errorCell \in 0..(SchulteGrid_total(game.difficulty) - 1)
                /\ game'.errorCell \notin Consumed(game)
                /\ SchulteGrid_numbers(game'.errorCell) # game.nextNumber
                /\ game'.nextNumber = game.nextNumber
                /\ game'.completed = game.completed
                /\ game'.timers.complete = game.timers.complete]_vars

\* Numbers have been consumed, an error has been counted, and the player may
\* click the consumed first cell.
Witness_C22 ==
    /\ game.id = "schulte"
    /\ game.mounted
    /\ ~game.finishedRef
    /\ game.errors = 1
    /\ Cardinality(game.completed) = 2
    /\ 0 \in Consumed(game) \cap SchulteGrid_clicks(game)


\* The time bonus for a completion time and a target time, both in tenths of
\* a second.
TimeBonus(time, target) ==
    IF time <= target THEN 300
    ELSE IF 2 * time <= 3 * target THEN 200
    ELSE IF time <= 2 * target THEN 100
    ELSE 0

\* The step of the final click of a grid.
FinalClick ==
    /\ game.id = "schulte"
    /\ game.mounted
    /\ ~game.finishedRef
    /\ game'.mounted
    /\ game'.finishedRef

\* C23: the grid-search score passed to onComplete is
\* max(0, 500 + bonus - 20 x errors), the bonus 300, 200, 100 or 0 as the
\* completion time is within the target, 1.5 targets, 2 targets or beyond,
\* and the completion time the stopwatch value at the final click plus one
\* tick of 0.1 s; no errors within the target time give 800.
Thm_C23 ==
    [][/\ FinalClick =>
            LET target == 10 * SchulteGrid_SETTINGS[game.difficulty].targetTime
                time == game.elapsed + 1
                raw == (500 + TimeBonus(time, target)) - (20 * game.errors)
            IN  /\ game'.elapsed = time
                /\ game'.errors = game.errors
                /\ game'.timers.complete.pending
                /\ game'.timers.complete.score = IF raw < 0 THEN 0 ELSE raw
                /\ (game.errors = 0 /\ time <= target) =>
                       game'.timers.complete.score = 800
       /\ (game.id = "schulte" /\ results' # results) =>
             /\ game.timers.complete.pending
             /\ results' = Append(results,
                                  [gameId |-> "schulte",
                                   difficulty |-> game.difficulty,
                                   score |-> game.timers.complete.score])
       /\ (game.id = "schulte" /\ game.timers.complete.pending
           /\ game'.id = "schulte" /\ game'.timers.complete.pending) =>
             game'.timers.complete = game.timers.complete]_vars

\* An easy grid finished without errors at exactly the target time of 20 s.
Witness_C23 ==
    /\ game.id = "schulte"
    /\ game.mounted
    /\ game.difficulty = "easy"
    /\ game.finishedRef
    /\ game.errors = 0
    /\ game.elapsed = 200
    /\ game.timers.complete.pending
    /\ game.timers.complete.score = 800


(***************************************************************************)
(* Interference (Stroop)                                                   *)
(***************************************************************************)
\* The points of a correct Stroop answer given after answerTime ms that
\* brings the streak to streak.
StroopPoints(streak, answerTime) ==
    10 + (IF answerTime <= 2000 THEN 5 ELSE 0)
       + (IF streak = 5 THEN 20 ELSE 0)
       + (IF streak = 10 THEN 50 ELSE 0)

\* C24: the running Stroop score is never negative; a wrong answer makes it
\* max(0, score - 5) and the streak 0; a correct answer adds 10, 5 more within
\* 2000 ms, 20 more when the streak reaches 5 and 50 more when it reaches 10;
\* the session ends with the answer of the last configured round, and with
\* no other.
Thm_C24 ==
    [][(game.id = "stroop" /\ game.mounted) =>
          LET rounds == StroopTest_SETTINGS[game.difficulty].totalRounds
          IN  /\ game.score >= 0
              /\ game.roundRef \in 1..rounds
              /\ \A c \in StroopTest_choices(game), t \in AnswerTimes :
                    (~game.isProcessing /\ StroopTest_handleOptionClick(c, t)) =>
                        /\ game'.mounted
                        /\ game'.isProcessing
                        /\ IF c = game.correctAnswer
                           THEN /\ game'.streak = game.streak + 1
                                /\ game'.score = game.score
                                       + StroopPoints(game.streak + 1, t)
                           ELSE /\ game'.streak = 0
                                /\ game'.score = IF game.score < 5 THEN 0
                                                 ELSE game.score - 5
                        /\ game'.scoreRef = game'.score
                        /\ game'.timers.feedback.pending
                        /\ game'.timers.feedback.final <=> game.roundRef = rounds
                        /\ game'.roundRef = IF game.roundRef = rounds THEN rounds
                                            ELSE game.roundRef + 1
              /\ (game'.mounted /\ (game'.score # game.score
                                    \/ game'.roundRef # game.roundRef)) =>
                    ~game.isProcessing /\ game'.isProcessing
              /\ results' # results =>
                    /\ game.roundRef = rounds
                    /\ game.isProcessing
                    /\ results' = Append(results,
                                         [gameId |-> "stroop",
                                          difficulty |-> game.difficulty,
                                          score |-> game.score])]_vars

\* A session in which the floor at 0 was used and both streak bonuses were
\* earned: easy, wrong in round 1, then fourteen fast correct answers
\* (14 x 15 + 20 + 50).
Witness_C24 ==
    /\ game.id = "stroop"
    /\ ~game.mounted
    /\ results = <<[gameId |-> "stroop", difficulty |-> "easy", score |-> 280]>>


(***************************************************************************)
(* Categorization                                                          *)
(***************************************************************************)
\* C25: in the categorization game a correct answer adds 10 points and 15
\* more when the new streak is a positive multiple of 3, a wrong answer takes
\* 5 and puts the streak to 0; the running score is not floored (it can be
\* negative), and onComplete gets max(0, running score).
Thm_C25 ==
    [][(game.id = "wordSort" /\ game.mounted) =>
          /\ \A c \in WordSort_choices(game) :
                (~game.isProcessing /\ game'.mounted /\ game'.isProcessing
                 /\ WordSort_handleCategoryClick(c)) =>
                    IF c = WordSort_category(game.difficulty, game.currentIndex)
                    THEN /\ game'.streak = game.streak + 1
                         /\ game'.score = game.score + 10
                                + (IF game'.streak > 0 /\ game'.streak % 3 = 0
                                   THEN 15 ELSE 0)
                    ELSE /\ game'.streak = 0
                         /\ game'.score = game.score - 5
          /\ (game'.mounted /\ game'.score # game.score) =>
                ~game.isProcessing /\ game'.isProcessing
          /\ results' # results =>
                results' = Append(results,
                                  [gameId |-> "wordSort",
                                   difficulty |-> game.difficulty,
                                   score |-> IF game.score < 0 THEN 0
                                             ELSE game.score])]_vars

\* Two wrong answers have brought the running score to -10, and the last
\* second of the countdown is running: the session is about to end below 0.
Witness_C25 ==
    /\ game.id = "wordSort"
    /\ game.mounted
    /\ game.score = -10
    /\ game.streak = 0
    /\ game.timeLeft = 1
    /\ game.timers.interval.pending


(***************************************************************************)
(* Arithmetic                                                              *)
(***************************************************************************)
\* C26: in the arithmetic game a correct answer adds pointsPerCorrect plus
\* min(comboBonus x (streak - 1), maxComboExtra), the streak counting this
\* answer; a wrong answer adds 0 and puts the streak to 0; the score never
\* decreases; and onComplete is called by the tick at which the countdown
\* reaches 0, never by an answer.
Thm_C26 ==
    [][(game.id = "arithmetic" /\ game.mounted) =>
          LET settings == ArithmeticChallenge_SETTINGS[game.difficulty]
              answered == /\ game'.mounted
                          /\ game'.totalAttempted = game.totalAttempted + 1
          IN  /\ \A v \in ArithmeticChallenge_choices(game) :
                    (answered /\ ArithmeticChallenge_handleOptionClick(v)) =>
                        IF v = game.currentProblem.answer
                        THEN LET streak == game.streak + 1
                                 combo == settings.comboBonus * (streak - 1)
                             IN  /\ game'.streak = streak
                                 /\ game'.score = game.score
                                       + settings.pointsPerCorrect
                                       + (IF combo < settings.maxComboExtra
                                          THEN combo ELSE settings.maxComboExtra)
                        ELSE /\ game'.streak = 0
                             /\ game'.score = game.score
              /\ game'.mounted =>
                    /\ game'.score >= game.score
                    /\ game'.score # game.score => answered
                    /\ game'.scoreRef = game'.score
              /\ answered => results' = results
              /\ results' # results =>
                    /\ game.timers.interval.pending
                    /\ game.timeLeft = 1
                    /\ results' = Append(results,
                                         [gameId |-> "arithmetic",
                                          difficulty |-> game.difficulty,
                                          score |-> game.score])]_vars

\* Seven correct answers in a row on easy: the seventh combo bonus is held at
\* maxComboExtra (7 x 10 + 0 + 2 + 4 + 6 + 8 + 10 + 10).
Witness_C26 ==
    /\ game.id = "arithmetic"
    /\ game.mounted
    /\ game.difficulty = "easy"
    /\ game.streak = 7
    /\ game.score = 110


(***************************************************************************)
(* Pattern reasoning                                                       *)
(***************************************************************************)
\* The number of questions of a pattern-reasoning session.
QuestionCount == [easy |-> 10, normal |-> 12, hard |-> 15]

\* C27: a pattern-reasoning session has exactly 10, 12 or 15 questions, all
\* different entries of the difficulty's pool, presents them one after the
\* other and calls onComplete after the answer to the last; a correct answer
\* adds pointsPerCorrect and 10 more within 8 seconds, a wrong one nothing.
Thm_C27 ==
    [][(game.id = "patternReason" /\ game.mounted) =>
          LET count == QuestionCount[game.difficulty]
              pool == ALL_QUESTIONS(game.difficulty)
              answered == ~game.isProcessing /\ game'.mounted /\ game'.isProcessing
          IN  /\ Len(game.questions) = count
              /\ \A i \in 1..count : \E k \in DOMAIN pool : game.questions[i] = pool[k]
              /\ \A i, j \in 1..count :
                    i # j => game.questions[i] # game.questions[j]
              /\ game.currentQuestion \in 0..(count - 1)
              /\ game'.mounted =>
                    /\ game'.questions = game.questions
                    /\ game'.currentQuestion # game.currentQuestion =>
                          /\ game.isProcessing
                          /\ game'.currentQuestion = game.currentQuestion + 1
                    /\ game'.score # game.score => answered
              /\ \A o \in PatternReason_choices(game), t \in PatternTimes :
                    (answered /\ PatternReason_handleOptionClick(o, t)) =>
                        game'.score =
                            IF o = PatternReason_bank[
                                       game.questions[game.currentQuestion + 1]]
                            THEN game.score
                                   + PatternReason_SETTINGS[game.difficulty].pointsPerCorrect
                                   + (IF t <= 8000 THEN 10 ELSE 0)
                            ELSE game.score
              /\ results' # results =>
                    /\ game.currentQuestion = count - 1
                    /\ game.isProcessing
                    /\ results' = Append(results,
                                         [gameId |-> "patternReason",
                                          difficulty |-> game.difficulty,
                                          score |-> game.score])]_vars

\* The tenth and last question of an easy session, drawn by a shuffle that
\* moved the pool, has been answered; all ten answers were correct and fast.
Witness_C27 ==
    /\ game.id = "patternReason"
    /\ game.mounted
    /\ game.difficulty = "easy"
    /\ game.questions # SubSeq(ALL_QUESTIONS("easy"), 1, 10)
    /\ game.currentQuestion = 9
    /\ game.isProcessing
    /\ game.score = 600


(***************************************************************************)
(* Memory match                                                            *)
(***************************************************************************)
\* C28: the memory-match score passed to onComplete is
\* max(0, 100 x matches - 10 x errors + bonus), the bonus being
\* max(0, 2 x (timeLimit - timeUsed)) on hard and 0 otherwise; when the hard
\* countdown expires first the bonus is 0 and matches are the pairs resolved
\* until then.
Thm_C28 ==
    [][(game.id = "memory" /\ results' # results) =>
          LET settings == MemoryMatch_SETTINGS[game.difficulty]
              byMatch == game.timers.check.pending /\ ~game'.timers.check.pending
              matches == IF byMatch THEN game.matches + 1 ELSE game.matches
              timeUsed == IF byMatch THEN settings.timeLimit - game.timeLeft
                          ELSE settings.timeLimit
              left == 2 * (settings.timeLimit - timeUsed)
              bonus == IF game.difficulty = "hard"
                       THEN (IF left < 0 THEN 0 ELSE left) ELSE 0
              raw == ((100 * matches) - (10 * game.errors)) + bonus
          IN  /\ game.mounted
              /\ IF byMatch
                 THEN game.timers.check.match /\ matches = settings.pairs
                 ELSE /\ game.difficulty = "hard"
                      /\ game.timers.interval.pending
                      /\ game.timeLeft = 1
                      /\ bonus = 0
              /\ results' = Append(results,
                                   [gameId |-> "memory",
                                    difficulty |-> game.difficulty,
                                    score |-> IF raw < 0 THEN 0 ELSE raw])]_vars

\* A hard session ended by the countdown with two pairs resolved and one
\* mismatch: 2 x 100 - 10, no bonus.
Witness_C28 ==
    /\ game.id = "memory"
    /\ ~game.mounted
    /\ results = <<[gameId |-> "memory", difficulty |-> "hard", score |-> 190]>>


(***************************************************************************)
(* Rating                                                                  *)
(***************************************************************************)
\* The place of a tier, from the baseline tier up.
TierRank(rating) ==
    CASE rating = "baseline" -> 0
      [] rating = "third" -> 1
      [] rating = "second" -> 2
      [] rating = "top" -> 3

\* C29: getRating gives the top tier from 90 up, the second tier from 70 to
\* below 90, the third from 50 to below 70 and the baseline tier below 50;
\* a larger average never gets a lower tier.
Thm_C29 ==
    norm.rated =>
        /\ norm.rating = "top" <=> norm.avg >= 90
        /\ norm.rating = "second" <=> (norm.avg >= 70 /\ norm.avg < 90)
        /\ norm.rating = "third" <=> (norm.avg >= 50 /\ norm.avg < 70)
        /\ norm.rating = "baseline" <=> norm.avg < 50
        /\ norm.rating \in {"top", "second", "third", "baseline"}
        /\ norm.avg <= norm.other =>
              TierRank(norm.rating) <= TierRank(norm.otherRating)

\* The averages 90 and 89 have been rated: the top and the second tier.
Witness_C29 ==
    /\ norm.rated
    /\ norm.avg = 90
    /\ norm.other = 89
    /\ norm.rating = "top"
    /\ norm.otherRating = "second"


(***************************************************************************)
(* Round index                                                             *)
(***************************************************************************)
\* A timeout of the component has fired in the step.
Fires(timer) == game.timers[timer].pending /\ ~game'.timers[timer].pending

\* C30: the round index of a session never goes back.  In digit span and
\* spatial recall the sequence length stays on a failed attempt, which counts
\* a failure (digit span) or uses the retry (spatial recall) when the session
\* goes on, and grows by exactly one after a correct round; in the Stroop,
\* categorization and pattern games the index grows by exactly one for each
\* answered item.
Thm_C30 ==
    [][(game.mounted /\ game'.mounted) =>
          /\ game.id = "digitSpan" =>
                /\ game'.sequenceLength =
                      IF Fires("confirm") /\ game.timers.confirm.kind = "advance"
                      THEN game.sequenceLength + 1 ELSE game.sequenceLength
                /\ (Confirmed /\ CorrectRecall) =>
                      game'.timers.confirm.kind = "advance"
                /\ (Confirmed /\ ~CorrectRecall) =>
                      /\ game'.timers.confirm.kind \in {"retry", "gameOver"}
                      /\ game'.timers.confirm.kind = "retry" =>
                            game'.failCount = game.failCount + 1
          /\ game.id = "pathMemory" =>
                /\ game'.currentLength =
                      IF /\ game.phase = "input"
                         /\ game'.phase = "success"
                         /\ game.currentLength
                               < PathMemory_SETTINGS[game.difficulty].maxLength
                      THEN game.currentLength + 1 ELSE game.currentLength
                /\ (FailedAttempt /\ game'.phase = "error") =>
                      (~game.retryUsed /\ game'.retryUsed)
          /\ game.id = "stroop" =>
                /\ game'.roundRef =
                      IF /\ ~game.isProcessing
                         /\ game'.isProcessing
                         /\ game.roundRef
                               < StroopTest_SETTINGS[game.difficulty].totalRounds
                      THEN game.roundRef + 1 ELSE game.roundRef
                /\ game'.round = game'.roundRef
          /\ game.id = "wordSort" =>
                /\ game'.currentIndex =
                      IF Fires("feedback") THEN game.currentIndex + 1
                      ELSE game.currentIndex
                /\ (~game.isProcessing /\ game'.isProcessing) =>
                      game'.timers.feedback.pending
          /\ game.id = "patternReason" =>
                /\ game'.currentQuestion =
                      IF Fires("feedback") THEN game.currentQuestion + 1
                      ELSE game.currentQuestion
                /\ (~game.isProcessing /\ game'.isProcessing) =>
                      game'.timers.feedback.pending]_vars

\* A normal digit-span session has moved on to length 4 after a failed and
\* then a correct recall at length 3.
Witness_C30 ==
    /\ game.id = "digitSpan"
    /\ game.mounted
    /\ game.difficulty = "normal"
    /\ game.sequenceLength = 4
    /\ game.score = 60
    /\ game.failCount = 0


(***************************************************************************)
(* Input outside the accepting phase                                       *)
(***************************************************************************)
\* C31: input outside the accepting phase changes nothing: digit, backspace
\* and confirm presses in digit span when the phase is not input, cell clicks
\* in spatial recall when the phase is not input, and clicks in the reaction
\* game during waiting, result and tooEarly.  In those phases the player's
\* input, the score and the recorded reaction times move by timeouts only.
Thm_C31 ==
    [][game.mounted =>
          /\ (game.id = "digitSpan" /\ game.phase # "input") =>
                /\ \A num \in 0..9 :
                      DigitSpan_handleNumberPress(num) => UNCHANGED vars
                /\ DigitSpan_handleBackspace => UNCHANGED vars
                /\ DigitSpan_handleConfirm => UNCHANGED vars
                /\ game'.mounted =>
                      /\ game'.playerInput \in {game.playerInput, <<>>}
                      /\ game'.score = game.score
                      /\ game'.timers.confirm.pending => game.timers.confirm.pending
          /\ (game.id = "pathMemory" /\ game.phase # "input") =>
                /\ game.phase \in {"ready", "showing", "success", "error", "gameover"}
                /\ \A cell \in 0..(PathMemory_SETTINGS[game.difficulty].gridSize
                                   * PathMemory_SETTINGS[game.difficulty].gridSize - 1) :
                      PathMemory_handleCellClick(cell) => UNCHANGED vars
                /\ game'.mounted =>
                      /\ game'.playerInput \in {game.playerInput, <<>>}
                      /\ game'.score = game.score
                      /\ game'.timers.after.pending => game.timers.after.pending
          /\ (game.id = "reaction"
              /\ game.phase \in {"waiting", "result", "tooEarly"}) =>
                /\ \A rt \in ReactionTimes :
                      ReactionTest_handleCircleClick(rt) => UNCHANGED vars
                /\ game'.mounted =>
                      /\ game'.reactionTimes = game.reactionTimes
                      /\ game'.currentTrial = game.currentTrial
                      /\ game'.phase = "tooEarly" => game.phase = "tooEarly"]_vars

\* Digit span shows the feedback of a recall confirmed on an incomplete input,
\* and the player goes on pressing digits.
Witness_C31 ==
    /\ game.id = "digitSpan"
    /\ game.mounted
    /\ game.phase = "feedback"
    /\ game.timers.confirm.pending
    /\ DigitSpan_presses(game) # {}


(***************************************************************************)
(* Spatial recall: the sequence generator                                  *)
(***************************************************************************)
\* C32: every sequence requested in a spatial-recall session has a length of
\* at most gridSize squared, and the sequence generated has exactly the
\* requested length, cells in 0 .. gridSize squared - 1 only, and no cell
\* twice.
Thm_C32 ==
    [][(game.id = "pathMemory" /\ game.mounted) =>
          LET settings == PathMemory_SETTINGS[game.difficulty]
              rangeSize == settings.gridSize * settings.gridSize
              requested == game.timers.after.pending
                              /\ game.timers.after.kind = "startRound"
          IN  /\ settings.maxLength <= rangeSize
              /\ game.currentLength \in settings.startLength..settings.maxLength
              /\ requested => game.timers.after.length = game.currentLength
              /\ Len(game.sequence) =
                    IF requested THEN game.currentLength - 1 ELSE game.currentLength
              /\ \A i \in 1..Len(game.sequence) :
                    game.sequence[i] \in 0..(rangeSize - 1)
              /\ \A i, j \in 1..Len(game.sequence) :
                    i # j => game.sequence[i] # game.sequence[j]
              /\ (game'.mounted /\ game'.sequence # game.sequence) =>
                    /\ requested
                    /\ Len(game'.sequence) = game.timers.after.length]_vars

\* The last round of a hard session: a sequence of ten cells of the 5 x 5
\* grid is shown.
Witness_C32 ==
    /\ game.id = "pathMemory"
    /\ game.mounted
    /\ game.difficulty = "hard"
    /\ game.phase = "showing"
    /\ Len(game.sequence) = 10


(***************************************************************************)
(* Time budgets                                                            *)
(***************************************************************************)
\* A mounted session whose time budget runs from the start of the session.
Timed ==
    /\ game.mounted
    /\ \/ game.id = "arithmetic"
       \/ game.id = "wordSort" /\ game.difficulty \in {"normal", "hard"}

\* C33: a session with a time budget that runs from its start (arithmetic,
\* categorization on normal and hard) never stays mounted with the budget
\* used up, and as long as the player stays in the game it comes to call
\* onComplete, whatever is clicked and whatever feedback timeout is pending.
Thm_C33 ==
    /\ [](Timed => game.timeLeft >= 1)
    /\ Timed ~> (results # <<>> \/ app.page # "game")

\* An arithmetic session has been ended by its countdown.
Witness_C33 ==
    /\ game.id = "arithmetic"
    /\ ~game.mounted
    /\ ~game.gameActiveRef
    /\ app.page = "game"
    /\ Len(results) = 1

\* C34: every generated arithmetic problem offers exactly four options, pairwise
\* distinct and non-negative integers, of which exactly one equals the answer;
\* the answer is a non-negative integer, at least 1 for a subtraction and the
\* exact quotient of the operands for a division.
Thm_C34 ==
    norm.generated =>
        LET problem == norm.problem
            options == problem.options
        IN  /\ Len(options) = 4
            /\ \A i \in 1..4 : options[i] \in Nat
            /\ \A i, j \in 1..4 : i # j => options[i] # options[j]
            /\ Cardinality({i \in 1..4 : options[i] = problem.answer}) = 1
            /\ problem.answer \in Nat
            /\ problem.text.op = "sub" =>
                   /\ problem.answer = problem.text.left - problem.text.right
                   /\ problem.answer >= 1
            /\ problem.text.op = "div" =>
                   problem.text.left = problem.text.right * problem.answer

\* A subtraction with answer 1 whose offsets start with the negative ones: 0 is
\* among the options.
Witness_C34 ==
    /\ norm.generated
    /\ norm.problem.text.op = "sub"
    /\ norm.problem.answer = 1
    /\ norm.draws.order = 2
    /\ SeqHas(norm.problem.options, 0)

\* C35: in the reaction game, while the phase is result neither the delay timer
\* nor the trick-withdraw timer of the answered trial is armed.
Cx_C35 ==
    (game.id = "reaction" /\ game.mounted /\ game.phase = "result") =>
        /\ ~game.timers.delay.pending
        /\ ~game.timers.trick.pending

\* C36: whenever the menu page is shown, the best scores and the record count
\* held in the App state are those of the persisted store.
Cx_C36 ==
    app.page = "menu" =>
        /\ app.bestScores = loadBestScores(bestStore)
        /\ app.recordCount = Len(loadRecords(recStore).items)

\* The scores of a game among records.
ScoresOf(records, g) ==
    {records[i].score : i \in {j \in 1..Len(records) : records[j].gameId = g}}

\* C37: from an empty store, after any finishGame and clearRecords calls, the
\* stored best score of every game is the maximum of the scores finished for it
\* since the last clear (none when there is no such score), and it is at least
\* every score of the game in the training log, also after the log has dropped
\* records of the game.
Thm_C37 ==
    \A g \in GameId :
        LET best == loadBestScores(bestStore)[g]
            finished == ScoresOf(history, g)
            logged == ScoresOf(loadRecords(recStore).items, g)
        IN  /\ finished = {} => best = Null
            /\ finished # {} =>
                   /\ best \in finished
                   /\ \A s \in finished : best >= s
            /\ logged \subseteq finished
            /\ \A s \in logged : best >= s

\* After a clear, a memory score of 100 whose record the log has dropped.
Witness_C37 ==
    /\ ops = 1
    /\ Len(history) > MaxRecords
    /\ Len(loadRecords(recStore).items) = MaxRecords
    /\ loadBestScores(bestStore)["memory"] = 100
    /\ ScoresOf(loadRecords(recStore).items, "memory") = {}

\* A digit-span session is mounted.
DigitSession == game.id = "digitSpan" /\ game.mounted

\* (maxLength - startLength + 1) x maxFails, maxFails 3 on easy and 2 otherwise
ConfirmationBound(difficulty) ==
    LET settings == DigitSpan_SETTINGS[difficulty]
    IN  (settings.maxLength - settings.startLength + 1)
        * (IF difficulty = "easy" THEN 3 ELSE 2)

\* C38: a digit-span session handles at most (maxLength - startLength + 1) x
\* maxFails confirmations, and with a player who confirms in every input phase
\* and timeouts that fire it comes to call onComplete, as long as the player
\* stays in the game.
Thm_C38 ==
    /\ [](DigitSession => game.confirmations <= ConfirmationBound(game.difficulty))
    /\ DigitSession ~> (results # <<>> \/ app.page # "game")

\* A hard session whose fourteenth confirmation is the failure that ends it.
Witness_C38 ==
    /\ DigitSession
    /\ game.difficulty = "hard"
    /\ game.confirmations = 14
    /\ game.timers.confirm.pending
    /\ game.timers.confirm.kind = "gameOver"

\* The cells of a grid.
Cells(g) == 0..(SchulteGrid_total(g.difficulty) - 1)

\* C39: in grid search the consumed numbers are exactly 1..nextNumber - 1 with
\* 1 <= nextNumber <= size squared + 1; the session finishes (finishedRef, one
\* completion scheduled) exactly at the click that consumes the last number,
\* and from then on no click changes anything: not the error count, and no
\* further completion is scheduled.
Thm_C39 ==
    /\ []((game.id = "schulte" /\ game.mounted) =>
            /\ game.completed = 1..(game.nextNumber - 1)
            /\ game.nextNumber \in 1..(SchulteGrid_total(game.difficulty) + 1)
            /\ game.finishedRef <=>
                   game.nextNumber = SchulteGrid_total(game.difficulty) + 1)
    /\ [][(game.id = "schulte" /\ game.mounted) =>
            /\ (~game.finishedRef /\ game'.finishedRef) =>
                  /\ game'.mounted
                  /\ game.nextNumber = SchulteGrid_total(game.difficulty)
                  /\ game'.completed = game.completed \cup {game.nextNumber}
                  /\ ~game.timers.complete.pending
                  /\ game'.timers.complete.pending
            /\ (~game.finishedRef /\ game'.mounted /\ ~game'.finishedRef) =>
                  ~game'.timers.complete.pending
            /\ game.finishedRef =>
                  /\ \A i \in Cells(game) :
                        SchulteGrid_handleCellClick(i) => UNCHANGED vars
                  /\ game'.mounted =>
                        /\ game'.errors = game.errors
                        /\ game'.finishedRef
                        /\ game'.timers.complete = game.timers.complete]_vars

\* A finished hard grid with its completion pending, where the player may
\* still click.
Witness_C39 ==
    /\ game.id = "schulte"
    /\ game.mounted
    /\ game.difficulty = "hard"
    /\ game.finishedRef
    /\ game.nextNumber = 26
    /\ game.errors = 2
    /\ game.timers.complete.pending
    /\ SchulteGrid_clicks(game) # {}

\* The values an option button can carry: answers are at most 99 + 99 + 20 or
\* 16 * 16, distractors within 10 of them.
OptionValues == 0..266

\* The tick that uses up the time budget of an arithmetic session.
Expiry ==
    /\ game.id = "arithmetic"
    /\ game.mounted
    /\ game.timeLeft = 1
    /\ ArithmeticChallenge_tick

\* C40: in the arithmetic game the tick that uses up the time budget reports
\* the score of that moment to onComplete, ends the session and leaves no
\* feedback timeout pending; from then on no answer click is accepted, and no
\* new problem is loaded nor input re-enabled, also when a feedback timeout was
\* pending at expiry.
Thm_C40 ==
    [][/\ Expiry =>
             /\ results' = Append(results, [gameId |-> app.currentGame,
                                            difficulty |-> app.difficulty,
                                            score |-> game.score])
             /\ ~game'.mounted
             /\ ~game'.gameActiveRef
             /\ ~game'.timers.feedback.pending
             /\ ~game'.timers.interval.pending
             /\ game'.scoreRef = game.score
             /\ game'.problemIndexRef = game.problemIndexRef
             /\ game'.isProcessingRef = game.isProcessingRef
       /\ (game.id = "arithmetic" /\ game.mounted) =>
             /\ game.timeLeft >= 1
             /\ game.gameActiveRef
             /\ game.scoreRef = game.score
       /\ (game.id = "arithmetic" /\ ~game.gameActiveRef) =>
             /\ results' = results
             /\ ~game'.mounted
             /\ ~game'.gameActiveRef
             /\ ~game'.timers.feedback.pending
             /\ game'.scoreRef = game.scoreRef
             /\ game'.problemIndexRef = game.problemIndexRef
             /\ game'.isProcessingRef = game.isProcessingRef
             /\ \A v \in OptionValues :
                   ArithmeticChallenge_handleOptionClick(v) => UNCHANGED vars
             /\ ArithmeticChallenge_feedbackTimeout => UNCHANGED vars]_vars

\* The budget ran out while the feedback of a scored answer was pending: one
\* onComplete call, with the score of that answer.
Witness_C40 ==
    /\ game.id = "arithmetic"
    /\ ~game.mounted
    /\ ~game.gameActiveRef
    /\ game.isProcessingRef
    /\ game.problemIndexRef = 1
    /\ game.scoreRef > 0
    /\ Len(results) = 1
    /\ results[1].score = game.scoreRef

====
